---- MODULE Spec2Model ----
(***************************************************************************)
(* The like -> match -> notification pipeline of the dating application:   *)
(* the relational schema, its row-level policies and its trigger functions *)
(* (the SQL kept in src/contexts/NotificationContext.tsx), the client       *)
(* requests that write to it, and the in-app notification provider that    *)
(* reacts to the realtime change feed.                                     *)
(***************************************************************************)
EXTENDS Integers, Sequences, FiniteSets, TLC

VARIABLES
    profiles,       \* profiles table: id -> [first_name]
    likes,          \* likes table: set of rows
    matches,        \* matches table: set of rows
    messages,       \* messages table: set of rows
    notifications,  \* notifications table: set of rows
    likeGen,        \* <<liker, liked>> -> number of like rows inserted for the pair
    subscribers,    \* the users whose NotificationProvider has its channels open
    realtime,       \* change events committed and not yet delivered to the clients
    banners,        \* NotificationProvider state of each user's client: user -> list
    txns,           \* the open transactions: txn id -> its position and pending writes
    lastError,      \* the error the last answered request returned, or NoError
    nOps,           \* number of requests that changed the store
    user,           \* useAuth().user of the device: the signed-in profile id, or NullId
    discover,       \* DiscoverScreen state of the device
    likesTab,       \* MatchesScreen state of the device (likes and matches tabs)
    onboarding,     \* OnboardingScreen state of the device
    notifScreen,    \* NotificationsScreen state of the device
    chat,           \* ChatScreen state of the device
    userStatus,     \* user_status table: user id -> row, NoRow when there is none
    statusWrites,   \* user_status upserts issued by the device, not yet applied
    profileScreen,  \* ProfileScreen state of the device
    provider,       \* NotificationProvider of the device: its banners with their ids
    now             \* Date.now() on the device, in milliseconds

vars == <<profiles, likes, matches, messages, notifications, likeGen,
          subscribers, realtime, banners, txns, lastError, nOps,
          user, discover, likesTab, onboarding, notifScreen, chat,
          userStatus, statusWrites, profileScreen, provider, now>>

\* the notifications, chat and profile screens of the device and its
\* banner list, with the user_status table and the clock they use
otherVars == <<notifScreen, chat, userStatus, statusWrites, profileScreen,
               provider, now>>

\* the screens of the device
uiVars == <<user, discover, likesTab, onboarding, otherVars>>

dbVars == <<profiles, likes, matches, messages, notifications, likeGen>>

(***************************************************************************)
(* Bounds of the model.                                                    *)
(***************************************************************************)
NumProfiles == 3
MaxOps == 4
MaxTxnOps == 5
MaxInflight == 2
NumTxns == 2
NumRacers == 2

Profiles == 1..NumProfiles
TxnIds == 1..NumTxns
\* the users whose like requests run as concurrent transactions
Racers == 1..NumRacers

(***************************************************************************)
(* Text.  A text value is a sequence of characters (code points); a        *)
(* character is a one-character string, or "U+xxxxx" for a character       *)
(* outside the Basic Multilingual Plane.  Null is SQL NULL.                *)
(***************************************************************************)
Null == <<"NULL">>

SuperLikedYou == <<" ", "s", "u", "p", "e", "r", " ", "l", "i", "k", "e", "d", " ", "y", "o", "u", "!">>
LikedYou == <<" ", "l", "i", "k", "e", "d", " ", "y", "o", "u", "!">>
SuperLikeTitle == <<"S", "u", "p", "e", "r", " ", "L", "i", "k", "e", "!">>
NewLikeTitle == <<"N", "e", "w", " ", "L", "i", "k", "e", "!">>
MatchTitle == <<"I", "t", "'", "s", " ", "a", " ", "M", "a", "t", "c", "h", "!", " ", "U+1F389">>
YouAnd == <<"Y", "o", "u", " ", "a", "n", "d", " ">>
LikedEachOther == <<" ", "l", "i", "k", "e", "d", " ", "e", "a", "c", "h", " ", "o", "t", "h", "e", "r", "!">>
NewMessageTitle == <<"N", "e", "w", " ", "M", "e", "s", "s", "a", "g", "e">>
ColonSpace == <<":", " ">>
Ellipsis == <<".", ".", ".">>
Someone == <<"S", "o", "m", "e", "o", "n", "e">>
someone == <<"s", "o", "m", "e", "o", "n", "e">>

\* LEFT(text, 50) / substring(0, 50): the length of the message preview
PreviewLen == 50

Rep(c, n) == [i \in 1..n |-> c]

Astral == {"U+1F600", "U+1F389"}

\* The first names the profiles are created with at onboarding (non-blank,
\* validateStep) and the value the profile screen's edit form saves in the
\* model: a first name left empty.
OnboardingName(p) == <<"U", ToString(p)>>
EditedNames == {<< >>}

\* Message contents sent in the model: around the preview length, in
\* characters and in UTF-16 code units.
Contents ==
    { Rep("a", PreviewLen), Rep("a", PreviewLen + 1),
      Rep("U+1F600", (PreviewLen \div 2) + 1) }

(***************************************************************************)
(* SQL values and expressions.                                             *)
(***************************************************************************)
NoError == "none"
NullId == 0

\* text || text: NULL if either side is NULL
SqlConcat(a, b) == IF a = Null \/ b = Null THEN Null ELSE a \o b

\* LENGTH(text): the number of characters
SqlLength(t) == Len(t)

\* LEFT(text, n): the first n characters
SqlLeft(t, n) == SubSeq(t, 1, IF Len(t) < n THEN Len(t) ELSE n)

\* LEAST / GREATEST on ids
Least(a, b) == IF a <= b THEN a ELSE b
Greatest(a, b) == IF a >= b THEN a ELSE b

\* SELECT first_name INTO x FROM profiles WHERE id = i: NULL when no row
SelectFirstName(profs, i) ==
    IF i \in DOMAIN profs THEN profs[i].first_name ELSE Null

(***************************************************************************)
(* Row-level policies (auth is auth.uid() of the request).                 *)
(***************************************************************************)
\* "Users can insert own likes": WITH CHECK (auth.uid() = liker_id)
RlsLikesInsert(auth, row) == auth = row.liker_id

\* "Users can delete own likes": USING (auth.uid() = liker_id)
RlsLikesDelete(auth, row) == auth = row.liker_id

\* likes has row-level security enabled and no UPDATE policy: default deny
RlsLikesUpdate(auth, row) == FALSE

\* "Users can update own profile": USING (auth.uid() = id)
RlsProfilesUpdate(auth, id) == auth = id

\* the insert policy of messages without its EXISTS clause
RlsMessagesInsertOwnSenderOnly(auth, ms, row) == auth = row.sender_id

\* "Users can insert messages to their matches"
RlsMessagesInsert(auth, ms, row) ==
    /\ auth = row.sender_id
    /\ \E m \in ms : /\ m.id = row.match_id
                     /\ (m.user1_id = auth \/ m.user2_id = auth)

(***************************************************************************)
(* Tables: constraints.                                                    *)
(***************************************************************************)
NotificationTypes == {"like", "super_like", "match", "message"}

\* likes UNIQUE(liker_id, liked_id)
LikeConflict(ls, liker, liked) ==
    \E l \in ls : l.liker_id = liker /\ l.liked_id = liked

\* notifications: user_id NOT NULL REFERENCES profiles, type CHECK,
\* title NOT NULL, message NOT NULL
NotificationRowOk(profs, n) ==
    /\ n.user_id \in DOMAIN profs
    /\ n.type \in NotificationTypes
    /\ n.title # Null
    /\ n.message # Null

(***************************************************************************)
(* Row ids.  gen_random_uuid() yields a value no other row has; the model  *)
(* takes, for a row, the table, the key of the row and the number of       *)
(* earlier rows with that key.                                             *)
(***************************************************************************)
LikeId(gen, liker, liked) == <<"likes", liker, liked, gen[<<liker, liked>>]>>

MatchId(ms, new) ==
    LET u1 == IF new.liker_id <= new.liked_id THEN new.liker_id ELSE new.liked_id
        u2 == IF new.liker_id <= new.liked_id THEN new.liked_id ELSE new.liker_id
    IN  <<"matches", u1, u2,
          Cardinality({ m \in ms : {m.user1_id, m.user2_id} = {u1, u2} })>>

MessageId(msgs, matchId) ==
    <<"messages", matchId, Cardinality({ m \in msgs : m.match_id = matchId })>>

\* the k-th notification created for the row with id rowId
NotificationId(rowId, k) == <<"notifications", rowId, k>>

(***************************************************************************)
(* Functions and triggers.                                                 *)
(***************************************************************************)
\* create_notification: the row it inserts
create_notification(p_user_id, p_type, p_title, p_message, p_data, id) ==
    [id |-> id, user_id |-> p_user_id, type |-> p_type, title |-> p_title,
     message |-> p_message, data |-> p_data, read |-> FALSE]

\* create_like_notification addressing the liker instead of the liked user
create_like_notification_to_liker(profs, new, id) ==
    create_notification(
        new.liker_id,
        IF new.is_super_like THEN "super_like" ELSE "like",
        IF new.is_super_like THEN SuperLikeTitle ELSE NewLikeTitle,
        SqlConcat(SelectFirstName(profs, new.liker_id),
                  IF new.is_super_like THEN SuperLikedYou ELSE LikedYou),
        [user_id |-> new.liker_id, like_id |-> new.id],
        id)

\* create_like_notification, AFTER INSERT ON likes
create_like_notification(profs, new, id) ==
    LET liker_name == SelectFirstName(profs, new.liker_id)
        notification_title ==
            IF new.is_super_like THEN SuperLikeTitle ELSE NewLikeTitle
        notification_message ==
            IF new.is_super_like THEN SqlConcat(liker_name, SuperLikedYou)
                                 ELSE SqlConcat(liker_name, LikedYou)
    IN  create_notification(
            new.liked_id,
            IF new.is_super_like THEN "super_like" ELSE "like",
            notification_title,
            notification_message,
            [user_id |-> new.liker_id, like_id |-> new.id],
            id)

\* create_match_notification telling each participant their own name
create_match_notification_own_name(profs, new, id1, id2) ==
    LET user1_name == SelectFirstName(profs, new.user1_id)
        user2_name == SelectFirstName(profs, new.user2_id)
    IN  { create_notification(
              new.user1_id, "match", MatchTitle,
              SqlConcat(SqlConcat(YouAnd, user1_name), LikedEachOther),
              [match_id |-> new.id, other_user_id |-> new.user2_id],
              id1),
          create_notification(
              new.user2_id, "match", MatchTitle,
              SqlConcat(SqlConcat(YouAnd, user2_name), LikedEachOther),
              [match_id |-> new.id, other_user_id |-> new.user1_id],
              id2) }

\* create_match_notification, AFTER INSERT ON matches: the two rows
create_match_notification(profs, new, id1, id2) ==
    LET user1_name == SelectFirstName(profs, new.user1_id)
        user2_name == SelectFirstName(profs, new.user2_id)
    IN  { create_notification(
              new.user1_id, "match", MatchTitle,
              SqlConcat(SqlConcat(YouAnd, user2_name), LikedEachOther),
              [match_id |-> new.id, other_user_id |-> new.user2_id],
              id1),
          create_notification(
              new.user2_id, "match", MatchTitle,
              SqlConcat(SqlConcat(YouAnd, user1_name), LikedEachOther),
              [match_id |-> new.id, other_user_id |-> new.user1_id],
              id2) }

\* the text of a message notification
MessageNotificationText(sender_name, content) ==
    SqlConcat(
        SqlConcat(SqlConcat(sender_name, ColonSpace), SqlLeft(content, PreviewLen)),
        IF SqlLength(content) > PreviewLen THEN Ellipsis ELSE << >>)

\* create_message_notification without the receiver test: always user1
create_message_notification_to_user1(profs, ms, new, id) ==
    LET match_record ==
            IF \E m \in ms : m.id = new.match_id
            THEN CHOOSE m \in ms : m.id = new.match_id
            ELSE [user1_id |-> NullId, user2_id |-> NullId]
    IN  create_notification(
            match_record.user1_id, "message", NewMessageTitle,
            MessageNotificationText(
                SelectFirstName(profs, new.sender_id), new.content),
            [match_id |-> new.match_id, sender_id |-> new.sender_id,
             message_id |-> new.id],
            id)

\* create_message_notification, AFTER INSERT ON messages
create_message_notification(profs, ms, new, id) ==
    LET match_record ==
            IF \E m \in ms : m.id = new.match_id
            THEN CHOOSE m \in ms : m.id = new.match_id
            ELSE [user1_id |-> NullId, user2_id |-> NullId]
        receiver_id ==
            IF match_record.user1_id = new.sender_id
            THEN match_record.user2_id
            ELSE match_record.user1_id
        sender_name == SelectFirstName(profs, new.sender_id)
    IN  create_notification(
            receiver_id, "message", NewMessageTitle,
            MessageNotificationText(sender_name, new.content),
            [match_id |-> new.match_id, sender_id |-> new.sender_id,
             message_id |-> new.id],
            id)

\* the insert without its ON CONFLICT clause: a second row of the pair
\* violates UNIQUE(user1_id, user2_id)
InsertMatchWithoutConflictClause(ms, u1, u2, id) ==
    IF \E m \in ms : m.user1_id = u1 /\ m.user2_id = u2
    THEN [rows |-> {}, error |-> "unique_violation"]
    ELSE [rows |-> {[id |-> id, user1_id |-> u1, user2_id |-> u2]},
          error |-> NoError]

\* INSERT INTO matches ... ON CONFLICT (user1_id, user2_id) DO NOTHING on
\* the table ms, under UNIQUE(user1_id, user2_id): the rows it adds and
\* the error it raises
InsertMatchOnConflictDoNothing(ms, u1, u2, id) ==
    IF \E m \in ms : m.user1_id = u1 /\ m.user2_id = u2
    THEN [rows |-> {}, error |-> NoError]
    ELSE [rows |-> {[id |-> id, user1_id |-> u1, user2_id |-> u2]},
          error |-> NoError]

\* create_match_on_mutual_like without LEAST / GREATEST: (liker, liked)
create_match_unordered(ls, ms, new, id) ==
    IF \E l \in ls : l.liker_id = new.liked_id /\ l.liked_id = new.liker_id
    THEN InsertMatchOnConflictDoNothing(ms, new.liker_id, new.liked_id, id)
    ELSE [rows |-> {}, error |-> NoError]

\* create_match_on_mutual_like, AFTER INSERT ON likes: the match rows it adds,
\* ls and ms being the likes and matches visible to the statement
create_match_on_mutual_like(ls, ms, new, id) ==
    IF \E l \in ls : l.liker_id = new.liked_id /\ l.liked_id = new.liker_id
    THEN InsertMatchOnConflictDoNothing(
             ms, Least(new.liker_id, new.liked_id),
             Greatest(new.liker_id, new.liked_id), id)
    ELSE [rows |-> {}, error |-> NoError]

\* the triggers with the match notifications sent whenever the reciprocal
\* like exists, whether or not the match insert added a row
FireLikeTriggersNotifyingEachTime(profs, ls, ms, new) ==
    LET derived == create_match_on_mutual_like(ls, ms, new, MatchId(ms, new))
        mutual == \E l \in ls : l.liker_id = new.liked_id /\ l.liked_id = new.liker_id
        pairRow == [id |-> MatchId(ms, new),
                    user1_id |-> Least(new.liker_id, new.liked_id),
                    user2_id |-> Greatest(new.liker_id, new.liked_id)]
        matchNotifs ==
            IF mutual
            THEN create_match_notification(
                     profs, pairRow, NotificationId(new.id, 1), NotificationId(new.id, 2))
            ELSE {}
        likeNotif == create_like_notification(profs, new, NotificationId(new.id, 0))
    IN  [matches |-> derived.rows,
         notifications |-> matchNotifs \cup {likeNotif},
         error |-> derived.error]

\* The AFTER INSERT row triggers of likes, in firing order (by name):
\* create_match_trigger (with match_notification_trigger on the row it
\* inserts), then like_notification_trigger.  new is already in ls.
FireLikeTriggers(profs, ls, ms, new) ==
    LET derived == create_match_on_mutual_like(ls, ms, new, MatchId(ms, new))
        matchNotifs ==
            UNION { create_match_notification(
                        profs, m, NotificationId(m.id, 1), NotificationId(m.id, 2)) :
                    m \in derived.rows }
        likeNotif == create_like_notification(profs, new, NotificationId(new.id, 0))
        newNotifs == matchNotifs \cup {likeNotif}
    IN  [matches |-> derived.rows,
         notifications |-> newNotifs,
         error |-> IF derived.error # NoError THEN derived.error
                   ELSE IF \A n \in newNotifs : NotificationRowOk(profs, n)
                   THEN NoError ELSE "constraint_violation"]

(***************************************************************************)
(* JavaScript strings: sequences of UTF-16 code units.  A character        *)
(* outside the Basic Multilingual Plane is a surrogate pair.               *)
(***************************************************************************)
HighSurrogate(c) == IF c = "U+1F600" THEN "U+D83D" ELSE "U+D83C"
LowSurrogate(c) == IF c = "U+1F600" THEN "U+DE00" ELSE "U+DF89"

RECURSIVE Utf16(_)
Utf16(t) ==
    IF t = << >> THEN << >>
    ELSE (IF Head(t) \in Astral
          THEN <<HighSurrogate(Head(t)), LowSurrogate(Head(t))>>
          ELSE <<Head(t)>>) \o Utf16(Tail(t))

\* s.length
JsLength(s) == Len(s)

\* s.substring(0, n)
JsSubstring0(s, n) == SubSeq(s, 1, IF Len(s) < n THEN Len(s) ELSE n)

\* profile?.first_name || fallback, the profile row read with maybeSingle()
JsNameOr(profs, i, fallback) ==
    LET first_name == SelectFirstName(profs, i)
    IN  IF first_name = Null \/ first_name = << >>
        THEN Utf16(fallback) ELSE Utf16(first_name)

(***************************************************************************)
(* NotificationProvider: the handlers of its three realtime channels, for  *)
(* the client of user u.  Each yields the banners showNotification adds.   *)
(***************************************************************************)
\* likesChannel: INSERT on likes, filter liked_id = u
LikesChannelHandler(profs, u, like) ==
    IF like.liked_id # u THEN << >>
    ELSE << [type |-> "like",
             title |-> Utf16(NewLikeTitle),
             message |-> JsNameOr(profs, like.liker_id, Someone)
                         \o Utf16(IF like.is_super_like THEN SuperLikedYou
                                                        ELSE LikedYou),
             data |-> [likeId |-> like.id, likerId |-> like.liker_id]] >>

\* matchesChannel: INSERT on matches, filter user1_id = u or user2_id = u
MatchesChannelHandler(profs, u, match) ==
    IF match.user1_id # u /\ match.user2_id # u THEN << >>
    ELSE LET otherUserId ==
                 IF match.user1_id = u THEN match.user2_id ELSE match.user1_id
         IN  << [type |-> "match",
                 title |-> Utf16(MatchTitle),
                 message |-> Utf16(YouAnd)
                             \o JsNameOr(profs, otherUserId, someone)
                             \o Utf16(LikedEachOther),
                 data |-> [matchId |-> match.id, otherUserId |-> otherUserId]] >>

\* the text of a message banner, content being the JavaScript string
BannerMessageText(sender_name, content) ==
    sender_name \o Utf16(ColonSpace) \o JsSubstring0(content, PreviewLen)
        \o (IF JsLength(content) > PreviewLen THEN Utf16(Ellipsis) ELSE << >>)

\* messagesChannel: INSERT on messages, no filter
MessagesChannelHandler(profs, ms, u, message) ==
    IF message.sender_id = u THEN << >>
    ELSE IF ~ \E m \in ms : /\ m.id = message.match_id
                            /\ (m.user1_id = u \/ m.user2_id = u)
    THEN << >>
    ELSE << [type |-> "message",
             title |-> Utf16(NewMessageTitle),
             message |-> BannerMessageText(
                             JsNameOr(profs, message.sender_id, Someone),
                             Utf16(message.content)),
             data |-> [matchId |-> message.match_id,
                       senderId |-> message.sender_id]] >>

ProviderHandler(profs, ms, u, ev) ==
    IF ev.table = "likes" THEN LikesChannelHandler(profs, u, ev.new)
    ELSE IF ev.table = "matches" THEN MatchesChannelHandler(profs, u, ev.new)
    ELSE MessagesChannelHandler(profs, ms, u, ev.new)

(***************************************************************************)
(* The state after the schema is installed and the users are onboarded.    *)
(***************************************************************************)
IdleTxn == [pc |-> "idle", likes |-> {}, matches |-> {}, notifications |-> {}]

\* no row / undefined, where a row id (a tuple) or a text is expected
NoRow == << >>
Undefined == <<"undefined">>

\* DiscoverScreen: its useState values at mount; inflight holds the
\* handleLike calls awaiting the answer of their upsert, alert tells
\* whether an Alert.alert dialog was shown
DiscoverMounted ==
    [profiles |-> << >>, currentIndex |-> 0, currentPhotoIndex |-> 0,
     loading |-> TRUE,
     friendRequestModal |-> [visible |-> FALSE, profile |-> NullId, likeId |-> NoRow],
     inflight |-> {}, alert |-> FALSE]

\* MatchesScreen: its useState values at mount (selectedProfile: no like)
LikesTabMounted ==
    [activeTab |-> "likes", pendingLikes |-> {}, selectedProfile |-> {},
     showProfileModal |-> FALSE, alert |-> FALSE]

\* OnboardingScreen: its useState values at mount (answers = {}); upload and
\* insert hold the answers completeOnboarding was called with
NoAnswers ==
    [phone |-> Undefined, city |-> Undefined, first_name |-> Undefined,
     age |-> NullId, looking_for |-> Undefined, interests |-> {},
     smoking |-> Undefined, drinking |-> Undefined, bio |-> Undefined,
     photos |-> << >>]

OnboardingMounted ==
    [currentStep |-> 0, answers |-> NoAnswers, loading |-> FALSE,
     alert |-> FALSE, upload |-> {}, insert |-> {}]

\* NotificationsScreen: its useState values at mount; route is the last
\* router.push of the screen
NoRoute == [pathname |-> "none"]

NotificationsMounted ==
    [notifications |-> {}, loading |-> TRUE, route |-> NoRoute]

\* ChatScreen before router.push('/chat'): no instance of the screen
\* (its useState values, the position and the answer of fetchMessages, the
\* 'messages' channel with the events pushed to it and not yet handled,
\* the typing timer, the sendMessage calls awaiting their insert)
ChatClosed ==
    [mounted |-> FALSE, unmounted |-> FALSE, matchId |-> NoRow,
     messages |-> << >>, loading |-> TRUE, fetch |-> "none", fetched |-> << >>,
     channel |-> FALSE, events |-> << >>, received |-> {},
     newMessage |-> << >>, isTyping |-> FALSE, typingTimeout |-> FALSE,
     sending |-> {}, alert |-> FALSE]

\* ProfileScreen: its useState values at mount (profile null, editData {})
ProfileMounted ==
    [profile |-> NoRow, editing |-> FALSE, editData |-> NoRow,
     loading |-> TRUE, alert |-> FALSE, sent |-> NoRow]

InitScreens ==
    /\ discover = DiscoverMounted
    /\ likesTab = LikesTabMounted
    /\ onboarding = OnboardingMounted
    /\ notifScreen = NotificationsMounted
    /\ chat = ChatClosed
    /\ userStatus = [u \in Profiles |-> NoRow]
    /\ statusWrites = << >>
    /\ profileScreen = ProfileMounted
    /\ provider = << >>
    /\ now = 0

InitOtherTables ==
    /\ likes = {}
    /\ matches = {}
    /\ messages = {}
    /\ notifications = {}
    /\ likeGen = [pr \in Profiles \X Profiles |-> 0]
    /\ realtime = << >>
    /\ banners = [u \in Profiles |-> << >>]
    /\ txns = [t \in TxnIds |-> IdleTxn]
    /\ lastError = NoError
    /\ nOps = 0

\* every user has completed onboarding
InitTables ==
    /\ profiles = [p \in Profiles |-> [first_name |-> OnboardingName(p)]]
    /\ InitOtherTables

\* the store; the device is not part of the run
InitStore == InitTables /\ InitScreens /\ user = NullId

\* the store and its requests, no client listening to the change feed
Init == InitStore /\ subscribers = {}

\* every user's client has its NotificationProvider mounted
InitClient == InitStore /\ subscribers = Profiles

\* the change events of a committed insert, queued when a channel is open
Published(table, rows) ==
    IF subscribers = {} \/ rows = {} THEN << >>
    ELSE << [table |-> table, new |-> CHOOSE r \in rows : TRUE] >>

\* the statement raises an error: nothing is written to the store
Refused(error) ==
    /\ lastError' = error
    /\ UNCHANGED <<dbVars, subscribers, realtime, banners, txns, nOps>>

\* the request is answered with an error and nothing is written
Rejected(error) == Refused(error) /\ UNCHANGED uiVars

(***************************************************************************)
(* Requests of the clients, each one statement in its own transaction.     *)
(***************************************************************************)
\* the statement of upsert(..., {onConflict: 'liker_id,liked_id'}) on likes,
\* ls being the likes it sees: the error it raises and the path it takes
LikeStatement(ls, auth, liker, liked) ==
    LET row == [liker_id |-> liker, liked_id |-> liked]
    IN  IF ~ RlsLikesInsert(auth, row)
        THEN [error |-> "rls_violation", path |-> "none"]
        ELSE IF ~ LikeConflict(ls, liker, liked)
        THEN [error |-> NoError, path |-> "insert"]
        ELSE IF ~ RlsLikesUpdate(auth, row)
        THEN [error |-> "rls_violation", path |-> "none"]
        ELSE [error |-> NoError, path |-> "update"]

\* ON CONFLICT DO UPDATE SET is_super_like = EXCLUDED.is_super_like
UpdateLike(ls, liker, liked, s) ==
    { IF l.liker_id = liker /\ l.liked_id = liked
      THEN [l EXCEPT !.is_super_like = s] ELSE l : l \in ls }

\* upsert([{liker_id: auth, liked_id: liked, is_super_like: s}],
\* {onConflict: 'liker_id,liked_id'}) on likes by user auth, run to its
\* commit: what it does to the store
UpsertLike(auth, liked, s) ==
    LET liker == auth
        st == LikeStatement(likes, auth, liker, liked)
        new == [id |-> LikeId(likeGen, liker, liked), liker_id |-> liker,
                liked_id |-> liked, is_super_like |-> s]
        tr == FireLikeTriggers(profiles, likes \cup {new}, matches, new)
    IN  /\ nOps < MaxOps
        /\ IF st.error # NoError THEN Refused(st.error)
           ELSE IF st.path = "update"
           THEN /\ likes' = UpdateLike(likes, liker, liked, s)
                /\ lastError' = NoError
                /\ nOps' = nOps + 1
                /\ UNCHANGED <<profiles, matches, messages, notifications,
                               likeGen, subscribers, realtime, banners, txns>>
           ELSE IF tr.error # NoError THEN Refused(tr.error)
           ELSE /\ likes' = likes \cup {new}
                /\ matches' = matches \cup tr.matches
                /\ notifications' = notifications \cup tr.notifications
                /\ likeGen' = [likeGen EXCEPT ![<<liker, liked>>] = @ + 1]
                /\ realtime' = realtime \o Published("likes", {new})
                                        \o Published("matches", tr.matches)
                /\ lastError' = NoError
                /\ nOps' = nOps + 1
                /\ UNCHANGED <<profiles, messages, subscribers, banners, txns>>

\* handleLike, handleAcceptFriendRequest, handleAcceptLike: user auth
\* upserts a like of the profile liked (the screen left aside)
WriteLike(auth, liked, s) == UpsertLike(auth, liked, s) /\ UNCHANGED uiVars

\* the delete with an ON DELETE trigger removing the match of the pair
DeleteLikeAndItsMatch(limit, auth, likeId) ==
    LET gone == { l \in likes : l.id = likeId /\ RlsLikesDelete(auth, l) }
    IN  /\ nOps < limit
        /\ likes' = likes \ gone
        /\ matches' = { m \in matches : \A l \in gone :
                            {m.user1_id, m.user2_id} # {l.liker_id, l.liked_id} }
        /\ lastError' = NoError
        /\ nOps' = IF gone = {} THEN nOps ELSE nOps + 1
        /\ UNCHANGED <<profiles, messages, notifications, likeGen,
                       subscribers, realtime, banners, txns, uiVars>>

\* delete().eq('id', likeId) on likes by user auth: the rows the policy
\* hides are not deleted and no error is raised
DeleteLikeRows(limit, auth, likeId) ==
    LET kept == { l \in likes : ~ (l.id = likeId /\ RlsLikesDelete(auth, l)) }
    IN  /\ nOps < limit
        /\ likes' = kept
        /\ lastError' = NoError
        /\ nOps' = IF kept = likes THEN nOps ELSE nOps + 1
        /\ UNCHANGED <<profiles, matches, messages, notifications, likeGen,
                       subscribers, realtime, banners, txns>>

\* the delete request (the screen left aside)
DeleteLikeWithin(limit, auth, likeId) ==
    DeleteLikeRows(limit, auth, likeId) /\ UNCHANGED uiVars

DeleteLike(auth, likeId) == DeleteLikeWithin(MaxOps, auth, likeId)

\* the row an insert into messages adds
NewMessage(matchId, sender, content) ==
    [id |-> MessageId(messages, matchId), match_id |-> matchId,
     sender_id |-> sender, content |-> content]

\* an insert into messages with its AFTER INSERT trigger, as far as the
\* store goes; checked tells whether the row-level policy applies to the
\* request, limit bounds the requests of the run
InsertMessageRows(limit, checked, auth, matchId, sender, content) ==
    LET new == NewMessage(matchId, sender, content)
        n == create_message_notification(
                 profiles, matches, new, NotificationId(new.id, 0))
    IN  /\ nOps < limit
        /\ IF checked /\ ~ RlsMessagesInsert(auth, matches, new)
           THEN Refused("rls_violation")
           ELSE IF ~ NotificationRowOk(profiles, n)
           THEN Refused("constraint_violation")
           ELSE /\ messages' = messages \cup {new}
                /\ notifications' = notifications \cup {n}
                /\ realtime' = realtime \o Published("messages", {new})
                /\ lastError' = NoError
                /\ nOps' = nOps + 1
                /\ UNCHANGED <<profiles, likes, matches, likeGen, subscribers,
                               banners, txns>>

InsertMessage(checked, auth, matchId, sender, content) ==
    /\ InsertMessageRows(MaxOps, checked, auth, matchId, sender, content)
    /\ UNCHANGED uiVars

\* sendMessage of the chat screen opened on the match matchId by user auth
SendMessage(auth, matchId, content) ==
    InsertMessage(TRUE, auth, matchId, auth, content)

\* an insert that the row-level policies do not apply to (they are declared
\* TO authenticated): the service role, the table owner
DirectInsertMessage(matchId, sender, content) ==
    InsertMessage(FALSE, sender, matchId, sender, content)

\* handleSave of the profile screen: update(editData).eq('id', auth)
UpdateProfile(auth, first_name) ==
    /\ nOps < MaxOps
    /\ RlsProfilesUpdate(auth, auth)
    /\ profiles[auth].first_name # first_name
    /\ profiles' = [profiles EXCEPT ![auth].first_name = first_name]
    /\ lastError' = NoError
    /\ nOps' = nOps + 1
    /\ UNCHANGED <<likes, matches, messages, notifications, likeGen,
                   subscribers, realtime, banners, txns,
                       uiVars>>

\* the realtime service delivers the oldest pending change to the clients
DeliverEvent ==
    /\ realtime # << >>
    /\ banners' = [u \in Profiles |->
                     IF u \in subscribers
                     THEN banners[u]
                          \o ProviderHandler(profiles, matches, u, Head(realtime))
                     ELSE banners[u]]
    /\ realtime' = Tail(realtime)
    /\ UNCHANGED <<dbVars, subscribers, txns, lastError, nOps,
                       uiVars>>

(***************************************************************************)
(* The like upsert as a READ COMMITTED transaction: a statement sees the   *)
(* rows committed when it starts and the rows its own transaction wrote.   *)
(***************************************************************************)
SameLikeKey(l1, l2) == l1.liker_id = l2.liker_id /\ l1.liked_id = l2.liked_id
SameMatchKey(m1, m2) == m1.user1_id = m2.user1_id /\ m1.user2_id = m2.user2_id

\* the row is written; the AFTER INSERT triggers have not run yet.  An
\* insert of a key another open transaction has written waits for it.
TxnInsertLike(t, auth, liked, s) ==
    LET liker == auth
        st == LikeStatement(likes, auth, liker, liked)
        new == [id |-> LikeId(likeGen, liker, liked), liker_id |-> liker,
                liked_id |-> liked, is_super_like |-> s]
    IN  /\ nOps < MaxTxnOps
        /\ txns[t].pc = "idle"
        /\ \A t1 \in TxnIds : t1 < t => txns[t1].pc # "idle"
        /\ \A t2 \in TxnIds \ {t} : \A l \in txns[t2].likes : ~ SameLikeKey(l, new)
        /\ IF st.error # NoError THEN Rejected(st.error)
           ELSE IF st.path = "update"
           THEN /\ likes' = UpdateLike(likes, liker, liked, s)
                /\ lastError' = NoError
                /\ nOps' = nOps + 1
                /\ UNCHANGED <<profiles, matches, messages, notifications,
                               likeGen, subscribers, realtime, banners, txns,
                       uiVars>>
           ELSE /\ txns' = [txns EXCEPT ![t] =
                              [pc |-> "inserted", likes |-> {new}, matches |-> {},
                               notifications |-> {}]]
                /\ likeGen' = [likeGen EXCEPT ![<<liker, liked>>] = @ + 1]
                /\ nOps' = nOps + 1
                /\ UNCHANGED <<profiles, likes, matches, messages, notifications,
                               subscribers, realtime, banners, lastError,
                       uiVars>>

\* the AFTER INSERT triggers of the row run on what is committed by now and
\* the transaction's own row.  A match insert of a key another open
\* transaction has written waits for it.
TxnFireTriggers(t) ==
    /\ txns[t].pc = "inserted"
    /\ LET new == CHOOSE l \in txns[t].likes : TRUE
           tr == FireLikeTriggers(profiles, likes \cup {new}, matches, new)
       IN  /\ \A t2 \in TxnIds \ {t} : \A m \in txns[t2].matches :
                 \A m1 \in tr.matches : ~ SameMatchKey(m, m1)
           /\ IF tr.error # NoError
              THEN /\ txns' = [txns EXCEPT ![t] = IdleTxn]
                   /\ lastError' = tr.error
              ELSE /\ txns' = [txns EXCEPT ![t] =
                                 [pc |-> "fired", likes |-> {new},
                                  matches |-> tr.matches,
                                  notifications |-> tr.notifications]]
                   /\ UNCHANGED lastError
    /\ UNCHANGED <<dbVars, subscribers, realtime, banners, nOps,
                       uiVars>>

\* a delete is one statement, committed at once; it sees committed rows
TxnDeleteLike(auth, likeId) == DeleteLikeWithin(MaxTxnOps, auth, likeId)

TxnCommit(t) ==
    /\ txns[t].pc = "fired"
    /\ likes' = likes \cup txns[t].likes
    /\ matches' = matches \cup txns[t].matches
    /\ notifications' = notifications \cup txns[t].notifications
    /\ realtime' = realtime \o Published("likes", txns[t].likes)
                            \o Published("matches", txns[t].matches)
    /\ txns' = [txns EXCEPT ![t] = IdleTxn]
    /\ lastError' = NoError
    /\ UNCHANGED <<profiles, messages, likeGen, subscribers, banners, nOps,
                       uiVars>>

Next ==
    \/ \E auth \in Profiles : \E liked \in Profiles \ {auth}, s \in BOOLEAN :
          WriteLike(auth, liked, s)
    \/ \E auth \in Profiles, l \in likes : DeleteLike(auth, l.id)
    \/ \E auth \in Profiles, m \in matches, content \in Contents :
          SendMessage(auth, m.id, content)

Spec == Init /\ [][Next]_vars

\* the store with direct writes that bypass the row-level policies
NextDirect ==
    \/ Next
    \/ \E m \in matches, sender \in Profiles, content \in Contents :
          DirectInsertMessage(m.id, sender, content)

SpecDirect == Init /\ [][NextDirect]_vars

\* the like requests as concurrent transactions
NextTxn ==
    \/ \E t \in TxnIds, auth \in Racers :
          \E liked \in Racers \ {auth} : TxnInsertLike(t, auth, liked, FALSE)
    \/ \E t \in TxnIds : TxnFireTriggers(t)
    \/ \E t \in TxnIds : TxnCommit(t)
    \/ \E auth \in Racers, l \in likes : TxnDeleteLike(auth, l.id)

SpecTxn == Init /\ [][NextTxn]_vars

\* the store with profile edits and the clients' notification providers
\* listening
NextClient ==
    \/ Next
    \/ \E auth \in Profiles, n \in EditedNames : UpdateProfile(auth, n)
    \/ DeliverEvent

SpecClient == InitClient /\ [][NextClient]_vars

(***************************************************************************)
(* Properties.                                                             *)
(***************************************************************************)
HasLike(ls, a, b) == \E l \in ls : l.liker_id = a /\ l.liked_id = b

\* the match rows of the unordered pair {a, b}
MatchesOf(ms, a, b) == { m \in ms : {m.user1_id, m.user2_id} = {a, b} }

AllIdle == \A t \in TxnIds : txns[t].pc = "idle"

\* C1: after any serial sequence of like upserts and deletes between
\* distinct profiles, whenever Like(a->b) and Like(b->a) both exist there is
\* exactly one match row of {a, b}, and it is (min(a,b), max(a,b)).
C1_MutualLikesHaveOneCanonicalMatch ==
    \A a \in Profiles, b \in Profiles :
        (a < b /\ HasLike(likes, a, b) /\ HasLike(likes, b, a)) =>
            /\ Cardinality(MatchesOf(matches, a, b)) = 1
            /\ \A m \in MatchesOf(matches, a, b) :
                   m.user1_id = a /\ m.user2_id = b

\* a mutual pair whose match exists and one of whose likes was withdrawn
\* and written again
C1_Witness ==
    \E a \in Profiles, b \in Profiles :
        /\ a # b
        /\ HasLike(likes, a, b) /\ HasLike(likes, b, a)
        /\ likeGen[<<a, b>>] >= 2
        /\ MatchesOf(matches, a, b) # {}

\* C2: when Like(a->b) and Like(b->a) are inserted by two concurrent
\* transactions, then after both have committed exactly one match row of
\* {a, b} exists.
C2_RacingLikesYieldOneMatch ==
    AllIdle =>
        \A a \in Profiles, b \in Profiles :
            (a < b /\ HasLike(likes, a, b) /\ HasLike(likes, b, a)) =>
                Cardinality(MatchesOf(matches, a, b)) = 1

\* C3: under any interleaving of like inserts there are never two match
\* rows of one unordered pair, and a match insert for an existing pair is
\* ignored, never an error of the like request.
C3_NoDuplicateMatchNoError ==
    /\ \A m1 \in matches, m2 \in matches :
           {m1.user1_id, m1.user2_id} = {m2.user1_id, m2.user2_id} => m1 = m2
    /\ lastError # "unique_violation"

\* the mutual-like condition was evaluated again for a pair that has its
\* match: both likes exist, one of them written a second time, and committed
C3_Witness ==
    /\ AllIdle
    /\ lastError = NoError
    /\ \E a \in Profiles, b \in Profiles :
           /\ a # b
           /\ HasLike(likes, a, b) /\ HasLike(likes, b, a)
           /\ likeGen[<<a, b>>] >= 2
           /\ Cardinality(MatchesOf(matches, a, b)) = 1

\* C4: an insert of Like(a->b, super = s) while Like(b->a) does not exist
\* creates no match row and exactly one notification row, addressed to b,
\* of type super_like if s and like otherwise.
C4_LoneLikeNotifiesLikedOnly ==
    [][ \A l \in likes' \ likes :
            ~ HasLike(likes, l.liked_id, l.liker_id) =>
                /\ matches' = matches
                /\ Cardinality(notifications' \ notifications) = 1
                /\ \A n \in notifications' \ notifications :
                       /\ n.user_id = l.liked_id
                       /\ n.type = IF l.is_super_like THEN "super_like" ELSE "like"
      ]_vars

\* a super like without its reciprocal, its notification, and no match
C4_Witness ==
    \E l \in likes :
        /\ l.is_super_like
        /\ ~ HasLike(likes, l.liked_id, l.liker_id)
        /\ MatchesOf(matches, l.liker_id, l.liked_id) = {}
        /\ \E n \in notifications :
               /\ n.type = "super_like"
               /\ n.data.like_id = l.id
               /\ n.user_id = l.liked_id

\* C5: the step that creates a match row of (p1, p2) creates exactly two
\* notifications of type match: one to p1 whose text and other_user_id
\* refer to p2, one to p2 whose text and other_user_id refer to p1.
MatchText(name) == YouAnd \o name \o LikedEachOther

C5_MatchNotifiesBothOfEachOther ==
    [][ \A m \in matches' \ matches :
            LET ns == { n \in notifications' \ notifications : n.type = "match" }
            IN  /\ Cardinality(ns) = 2
                /\ \E n1 \in ns, n2 \in ns :
                       /\ n1.user_id = m.user1_id
                       /\ n1.data.other_user_id = m.user2_id
                       /\ n1.message = MatchText(profiles[m.user2_id].first_name)
                       /\ n2.user_id = m.user2_id
                       /\ n2.data.other_user_id = m.user1_id
                       /\ n2.message = MatchText(profiles[m.user1_id].first_name)
                       /\ n1.data.match_id = m.id /\ n2.data.match_id = m.id
      ]_vars

\* a match with its two notifications
C5_Witness ==
    \E m \in matches :
        Cardinality({ n \in notifications :
                        n.type = "match" /\ n.data.match_id = m.id }) = 2

\* C6: a message inserted into match m by a participant s creates exactly
\* one notification, of type message, addressed to the participant of m
\* that is not s.
C6_MessageNotifiesOtherParticipant ==
    [][ \A msg \in messages' \ messages : \A m \in matches :
            (m.id = msg.match_id /\ msg.sender_id \in {m.user1_id, m.user2_id}) =>
                /\ Cardinality(notifications' \ notifications) = 1
                /\ \A n \in notifications' \ notifications :
                       /\ n.type = "message"
                       /\ n.user_id \in {m.user1_id, m.user2_id}
                       /\ n.user_id # msg.sender_id
      ]_vars

\* a message sent by the second participant of its match, notified to the
\* first, and one sent by the first, notified to the second
C6_Witness ==
    \E msg \in messages, m \in matches, n \in notifications :
        /\ m.id = msg.match_id
        /\ msg.sender_id = m.user2_id
        /\ n.type = "message"
        /\ n.data.message_id = msg.id
        /\ n.user_id = m.user1_id

\* C7: for every message content c, the text of its notification, in the
\* notifications table and in the in-app banner, is the sender's name, ": "
\* and c itself when c has at most 50 characters, its first 50 characters
\* and "..." when it has more.
ExpectedPreview(c) ==
    IF Len(c) <= PreviewLen THEN c ELSE SubSeq(c, 1, PreviewLen) \o Ellipsis

C7_MessageTextIsTruncatedPreview ==
    [][ /\ \A msg \in messages' \ messages :
               \A n \in notifications' \ notifications :
                   n.message = profiles[msg.sender_id].first_name \o ColonSpace
                                   \o ExpectedPreview(msg.content)
        /\ (realtime # << >> /\ realtime' = Tail(realtime)
                /\ Head(realtime).table = "messages") =>
               LET msg == Head(realtime).new
                   name == profiles[msg.sender_id].first_name
               IN  \A u \in Profiles :
                       \A i \in (Len(banners[u]) + 1)..Len(banners'[u]) :
                           name # << >> =>
                               banners'[u][i].message =
                                   Utf16(name \o ColonSpace
                                             \o ExpectedPreview(msg.content))
      ]_vars

\* C8: a message inserted into match m with a sender that is not one of
\* m's two participants creates no notification row.
C8_NonParticipantMessageNotifiesNoOne ==
    [][ \A msg \in messages' \ messages : \A m \in matches :
            (m.id = msg.match_id /\ msg.sender_id \notin {m.user1_id, m.user2_id})
                => notifications' = notifications
      ]_vars

\* C9: an upsert by a of a like of the pair (a, b) that already has a row
\* succeeds, leaves exactly one row of the pair, with is_super_like set to
\* the new value, and creates no match row; there is never more than one
\* like row of an ordered pair.
C9_RepeatedLikeUpsertSucceeds ==
    [][ /\ \A l1 \in likes', l2 \in likes' :
               (l1.liker_id = l2.liker_id /\ l1.liked_id = l2.liked_id) => l1 = l2
        /\ \A a \in Profiles, b \in Profiles, s \in BOOLEAN :
               (a # b /\ HasLike(likes, a, b) /\ WriteLike(a, b, s)) =>
                   /\ lastError' = NoError
                   /\ \E l \in likes' : /\ l.liker_id = a /\ l.liked_id = b
                                        /\ l.is_super_like = s
                   /\ matches' = matches
      ]_vars

\* C10: when the acting user's profile yields no first name, the insert of
\* a like, a match or a message still commits and its notification names
\* the actor "Someone".
NoName(profs, i) ==
    SelectFirstName(profs, i) = Null \/ SelectFirstName(profs, i) = << >>

C10_UnresolvedNameFallsBackToSomeone ==
    [][ /\ \A l \in likes' \ likes :
               NoName(profiles, l.liker_id) =>
                   \E n \in notifications' \ notifications :
                       /\ n.type \in {"like", "super_like"}
                       /\ n.message = Someone \o (IF l.is_super_like
                                                  THEN SuperLikedYou ELSE LikedYou)
        /\ \A m \in matches' \ matches : \A p \in {m.user1_id, m.user2_id} :
               NoName(profiles, p) =>
                   \E n \in notifications' \ notifications :
                       /\ n.type = "match"
                       /\ n.data.other_user_id = p
                       /\ n.message = MatchText(Someone)
        /\ \A msg \in messages' \ messages :
               NoName(profiles, msg.sender_id) =>
                   \E n \in notifications' \ notifications :
                       /\ n.type = "message"
                       /\ n.message = Someone \o ColonSpace
                                          \o ExpectedPreview(msg.content)
      ]_vars

(***************************************************************************)
(* Failure of the match insert inside create_match_trigger.                *)
(***************************************************************************)
\* an error of the INSERT INTO matches other than the conflict it ignores
MatchInsertFailed == "match_insert_failed"

\* create_match_on_mutual_like with an EXCEPTION WHEN OTHERS handler that
\* returns NEW: the like is committed without its match
WriteLikeMatchInsertSwallowed(auth, liked, s) ==
    LET liker == auth
        st == LikeStatement(likes, auth, liker, liked)
        new == [id |-> LikeId(likeGen, liker, liked), liker_id |-> liker,
                liked_id |-> liked, is_super_like |-> s]
    IN  /\ nOps < MaxOps
        /\ st.error = NoError /\ st.path = "insert"
        /\ \E l \in likes : l.liker_id = liked /\ l.liked_id = liker
        /\ likes' = likes \cup {new}
        /\ notifications' = notifications \cup
               {create_like_notification(profiles, new, NotificationId(new.id, 0))}
        /\ likeGen' = [likeGen EXCEPT ![<<liker, liked>>] = @ + 1]
        /\ lastError' = NoError
        /\ nOps' = nOps + 1
        /\ UNCHANGED <<profiles, matches, messages, subscribers, realtime,
                       banners, txns,
                       uiVars>>

\* The like upsert of user auth in which the INSERT INTO matches of
\* create_match_on_mutual_like raises an error.  The function has no
\* EXCEPTION block and runs in the transaction of the like insert: the error
\* leaves the trigger, the statement is aborted and nothing it wrote stays.
WriteLikeMatchInsertFails(auth, liked, s) ==
    LET liker == auth
        st == LikeStatement(likes, auth, liker, liked)
    IN  /\ nOps < MaxOps
        /\ st.error = NoError /\ st.path = "insert"
        /\ \E l \in likes : l.liker_id = liked /\ l.liked_id = liker
        /\ Rejected(MatchInsertFailed)

NextFault ==
    \/ Next
    \/ \E auth \in Profiles : \E liked \in Profiles \ {auth}, s \in BOOLEAN :
          WriteLikeMatchInsertFails(auth, liked, s)

SpecFault == Init /\ [][NextFault]_vars

\* C11: a like insert whose match insert fails (for another reason than the
\* pair already existing) writes nothing, and no step commits a like that
\* completes a mutual pair without the match row of the pair.
C11_FailedMatchInsertRollsBackLike ==
    [][ /\ lastError' = MatchInsertFailed =>
               /\ likes' = likes /\ matches' = matches
               /\ notifications' = notifications
        /\ \A l \in likes' \ likes :
               HasLike(likes, l.liked_id, l.liker_id) =>
                   MatchesOf(matches', l.liker_id, l.liked_id) # {}
      ]_vars

\* a like answering an existing one was refused with the failure of the
\* match insert: the pair is not mutual and has no match
C11_Witness ==
    /\ lastError = MatchInsertFailed
    /\ \E a \in Profiles, b \in Profiles :
           /\ HasLike(likes, b, a) /\ ~ HasLike(likes, a, b)
           /\ MatchesOf(matches, a, b) = {}

(***************************************************************************)
(* Requests an authenticated client can send to the tables directly, with  *)
(* its own session, besides those the screens send.                        *)
(***************************************************************************)
\* "System can create matches": FOR INSERT TO authenticated WITH CHECK (true)
RlsMatchesInsert(auth, row) == TRUE

\* insert([{user1_id: u1, user2_id: u2}]) on matches by user auth, with the
\* AFTER INSERT trigger of matches
ApiInsertMatch(auth, u1, u2) ==
    LET new == [id |-> MatchId(matches, [liker_id |-> u1, liked_id |-> u2]),
                user1_id |-> u1, user2_id |-> u2]
        ns == create_match_notification(
                  profiles, new, NotificationId(new.id, 1), NotificationId(new.id, 2))
    IN  /\ nOps < MaxOps
        /\ IF ~ RlsMatchesInsert(auth, new) THEN Rejected("rls_violation")
           ELSE IF \E m \in matches : SameMatchKey(m, new)
           THEN Rejected("unique_violation")
           ELSE IF ~ \A n \in ns : NotificationRowOk(profiles, n)
           THEN Rejected("constraint_violation")
           ELSE /\ matches' = matches \cup {new}
                /\ notifications' = notifications \cup ns
                /\ realtime' = realtime \o Published("matches", {new})
                /\ lastError' = NoError
                /\ nOps' = nOps + 1
                /\ UNCHANGED <<profiles, likes, messages, likeGen, subscribers,
                               banners, txns,
                       uiVars>>

NextApi ==
    \/ Next
    \/ \E auth \in Profiles, u1 \in Profiles, u2 \in Profiles :
          ApiInsertMatch(auth, u1, u2)

SpecApi == Init /\ [][NextApi]_vars

\* C12: through the requests open to authenticated clients, a match row of
\* (a, b) comes into existence only in a step that inserts a like, at a
\* moment when Like(a->b) and Like(b->a) both exist.
C12_MatchesOnlyFromMutualLikes ==
    [][ \A m \in matches' \ matches :
            /\ likes' \ likes # {}
            /\ HasLike(likes', m.user1_id, m.user2_id)
            /\ HasLike(likes', m.user2_id, m.user1_id)
      ]_vars

(***************************************************************************)
(* Messages under their row-level policies.                                *)
(***************************************************************************)
\* "Users can read messages from their matches": USING (EXISTS ...)
RlsMessagesSelect(auth, ms, row) ==
    \E m \in ms : /\ m.id = row.match_id
                  /\ (m.user1_id = auth \/ m.user2_id = auth)

\* select('*') on messages by user auth: the rows the policy shows
SelectMessages(auth) ==
    { msg \in messages : RlsMessagesSelect(auth, matches, msg) }

\* insert([{match_id, sender_id, content}]) on messages by user auth with
\* any sender_id, as the session of auth can send it
ApiInsertMessage(auth, matchId, sender, content) ==
    InsertMessage(TRUE, auth, matchId, sender, content)

NextMsgApi ==
    \/ Next
    \/ \E auth \in Profiles, m \in matches, sender \in Profiles,
          content \in Contents :
          ApiInsertMessage(auth, m.id, sender, content)

SpecMsgApi == Init /\ [][NextMsgApi]_vars

IsParticipant(u, matchId) ==
    \E m \in matches : m.id = matchId /\ u \in {m.user1_id, m.user2_id}

\* C14: every message's sender is a participant of the message's match and
\* is the authenticated user that inserted it; a user that is not a
\* participant of a match can neither insert a message into it nor read
\* its messages.
C14_MessagesOnlyByAndForParticipants ==
    [][ /\ \A msg \in messages' : IsParticipant(msg.sender_id, msg.match_id)'
        /\ \A auth \in Profiles, m \in matches, sender \in Profiles,
              content \in Contents :
               (ApiInsertMessage(auth, m.id, sender, content)
                    /\ messages' # messages) =>
                   /\ sender = auth
                   /\ auth \in {m.user1_id, m.user2_id}
        /\ \A u \in Profiles : \A msg \in SelectMessages(u)' :
               IsParticipant(u, msg.match_id)'
      ]_vars

\* a message of a match, a profile outside the match that does not read it,
\* and an insert that the policy has just refused
C14_Witness ==
    /\ lastError = "rls_violation"
    /\ \E msg \in messages, u \in Profiles :
           /\ ~ IsParticipant(u, msg.match_id)
           /\ msg \notin SelectMessages(u)
           /\ msg \in SelectMessages(msg.sender_id)

(***************************************************************************)
(* Self-likes.  The likes table has no CHECK (liker_id <> liked_id), and   *)
(* the insert policy asks only auth.uid() = liker_id.                      *)
(***************************************************************************)
\* upsert([{liker_id: auth, liked_id: auth}]) on likes by user auth
WriteSelfLike(auth, s) == WriteLike(auth, auth, s)

NextSelf ==
    \/ Next
    \/ \E auth \in Profiles, s \in BOOLEAN : WriteSelfLike(auth, s)

SpecSelf == Init /\ [][NextSelf]_vars

\* C15: the insert of a self-like Like(a->a) creates no match row and no
\* match notification.
C15_SelfLikeCreatesNoMatch ==
    [][ \A l \in likes' \ likes :
            l.liker_id = l.liked_id =>
                /\ matches' = matches
                /\ \A n \in notifications' \ notifications : n.type # "match"
      ]_vars

\* C17: a step that deletes a like row changes no other row: the match of
\* the pair, its messages and every notification stay as they are.
C17_DeleteLikeChangesNothingElse ==
    [][ (likes' \subseteq likes /\ likes' # likes) =>
            /\ matches' = matches
            /\ messages' = messages
            /\ notifications' = notifications
            /\ profiles' = profiles
      ]_vars

\* a match one of whose likes was withdrawn, with a message and its two
\* match notifications
C17_Witness ==
    \E m \in matches :
        /\ ~ (HasLike(likes, m.user1_id, m.user2_id)
                /\ HasLike(likes, m.user2_id, m.user1_id))
        /\ \E msg \in messages : msg.match_id = m.id
        /\ Cardinality({ n \in notifications :
                           n.type = "match" /\ n.data.match_id = m.id }) = 2

\* the match notifications of the unordered pair {a, b}
MatchNotificationsOf(ns, a, b) ==
    { n \in ns : n.type = "match" /\ {n.user_id, n.data.other_user_id} = {a, b} }

\* C18: once a match of {a, b} exists, deleting and inserting a like of the
\* pair again leaves exactly one match row of {a, b} and creates no further
\* match notification: there are never more than two match notifications
\* of one unordered pair.
C18_RelikeKeepsOneMatchTwoNotifications ==
    /\ \A a \in Profiles, b \in Profiles :
           /\ Cardinality(MatchNotificationsOf(notifications, a, b)) <= 2
           /\ Cardinality(MatchesOf(matches, a, b)) <= 1
           /\ (MatchesOf(matches, a, b) # {} /\ a # b) =>
                  Cardinality(MatchNotificationsOf(notifications, a, b)) = 2

\* a pair with its match whose like was deleted and inserted again, both
\* likes present: still one match and two match notifications
C18_Witness ==
    \E a \in Profiles, b \in Profiles :
        /\ a # b
        /\ likeGen[<<a, b>>] >= 2
        /\ HasLike(likes, a, b) /\ HasLike(likes, b, a)
        /\ Cardinality(MatchesOf(matches, a, b)) = 1
        /\ Cardinality(MatchNotificationsOf(notifications, a, b)) = 2

(***************************************************************************)
(* MatchesScreen of the device: the pending likes and what the user does   *)
(* with one of them.                                                       *)
(***************************************************************************)
\* InitTables and the screens as mounted, some profile signed in
InitDevice ==
    /\ InitTables
    /\ InitScreens
    /\ user \in Profiles

\* fetchPendingLikes (at mount, and on every change event of likes and
\* matches): the likes of the user whose liker is not matched with the user
FetchPendingLikes ==
    LET likesData == { l \in likes : l.liked_id = user }
        matchesData == { m \in matches : m.user1_id = user \/ m.user2_id = user }
        matchedUserIds ==
            { IF m.user1_id = user THEN m.user2_id ELSE m.user1_id : m \in matchesData }
        pendingLikes == { l \in likesData : l.liker_id \notin matchedUserIds }
    IN  /\ likesTab' = [likesTab EXCEPT !.pendingLikes = pendingLikes]
        /\ UNCHANGED <<dbVars, subscribers, realtime, banners, txns, lastError,
                       nOps, user, discover, onboarding,
                   otherVars>>

\* handleLikeProfile: the user opens a pending like
HandleLikeProfile(like) ==
    /\ like \in likesTab.pendingLikes
    /\ likesTab' = [likesTab EXCEPT !.selectedProfile = {like},
                                    !.showProfileModal = TRUE]
    /\ UNCHANGED <<dbVars, subscribers, realtime, banners, txns, lastError,
                   nOps, user, discover, onboarding,
                   otherVars>>

\* handleAcceptLike: the user likes back the liker of the opened like
HandleAcceptLike ==
    /\ likesTab.selectedProfile # {}
    /\ \E selectedProfile \in likesTab.selectedProfile :
           UpsertLike(user, selectedProfile.liker_id, FALSE)
    /\ likesTab' = IF lastError' = NoError
                   THEN [likesTab EXCEPT !.showProfileModal = FALSE,
                                         !.selectedProfile = {},
                                         !.activeTab = "matches"]
                   ELSE [likesTab EXCEPT !.alert = TRUE]
    /\ UNCHANGED <<user, discover, onboarding,
                   otherVars>>

\* handlePassLike: the user passes on the opened like; the answer of the
\* delete is not looked at
HandlePassLike ==
    /\ likesTab.selectedProfile # {}
    /\ \E selectedProfile \in likesTab.selectedProfile :
           DeleteLikeRows(MaxOps, user, selectedProfile.id)
    /\ likesTab' = [likesTab EXCEPT !.showProfileModal = FALSE,
                                    !.selectedProfile = {}]
    /\ UNCHANGED <<user, discover, onboarding,
                   otherVars>>

NextLikesTab ==
    \/ Next
    \/ FetchPendingLikes
    \/ \E like \in likes : HandleLikeProfile(like)
    \/ HandleAcceptLike
    \/ HandlePassLike

\* the device with no NotificationProvider listening
InitLikesTab == InitDevice /\ subscribers = {}

SpecLikesTab == InitLikesTab /\ [][NextLikesTab]_vars

\* C13: after the user passes on the pending like they opened, that like
\* row is no longer in the likes table.
C13_PassedLikeIsDeleted ==
    [][ HandlePassLike =>
            \A selectedProfile \in likesTab.selectedProfile :
                \A l \in likes' : l.id # selectedProfile.id
      ]_vars

(***************************************************************************)
(* DiscoverScreen of the device.                                           *)
(***************************************************************************)
\* query.limit(10), and the photos a profile has (onboarding asks for two)
FetchLimit == 10
PhotosPerProfile == 2

\* the orders in which a select without ORDER BY can return the rows S
RECURSIVE Orderings(_)
Orderings(S) ==
    IF S = {} THEN { << >> }
    ELSE UNION { { <<x>> \o t : t \in Orderings(S \ {x}) } : x \in S }

\* the profiles query with the .neq('id', user.id) filter left out
DiscoverQueryWithoutNeq(profs, ls, u) ==
    LET likedIds == { l.liked_id : l \in { l \in ls : l.liker_id = u } }
    IN  { id \in DOMAIN profs : id \notin likedIds }

\* fetchProfiles: the ids its two queries select for user u
DiscoverQuery(profs, ls, u) ==
    LET likedIds == { l.liked_id : l \in { l \in ls : l.liker_id = u } }
    IN  { id \in DOMAIN profs : id # u /\ id \notin likedIds }

\* fetchProfiles, run at mount and by the Refresh button of the empty deck;
\* it replaces the profiles and leaves currentIndex as it is
FetchProfiles ==
    /\ discover.loading \/ discover.currentIndex >= Len(discover.profiles)
    /\ \E rows \in Orderings(DiscoverQuery(profiles, likes, user)) :
           discover' = [discover EXCEPT
               !.profiles = SubSeq(rows, 1, IF Len(rows) < FetchLimit
                                            THEN Len(rows) ELSE FetchLimit),
               !.loading = FALSE]
    /\ UNCHANGED <<dbVars, subscribers, realtime, banners, txns, lastError,
                   nOps, user, likesTab, onboarding,
                   otherVars>>

\* handleLike(false): a pass, no request
HandlePass ==
    /\ ~ discover.loading
    /\ discover.currentIndex < Len(discover.profiles)
    /\ discover' = [discover EXCEPT !.currentIndex = discover.currentIndex + 1,
                                    !.currentPhotoIndex = 0]
    /\ UNCHANGED <<dbVars, subscribers, realtime, banners, txns, lastError,
                   nOps, user, likesTab, onboarding,
                   otherVars>>

\* handleLike(true, isSuperLike) up to its await: the upsert is sent for
\* the profile on display, the call keeps the currentIndex of its render
HandleLikeSend(isSuperLike) ==
    /\ ~ discover.loading
    /\ discover.currentIndex < Len(discover.profiles)
    /\ Cardinality(discover.inflight) < MaxInflight
    /\ discover' = [discover EXCEPT !.inflight = @ \cup
           {[currentIndex |-> discover.currentIndex,
             liked_id |-> discover.profiles[discover.currentIndex + 1],
             is_super_like |-> isSuperLike]}]
    /\ UNCHANGED <<dbVars, subscribers, realtime, banners, txns, lastError,
                   nOps, user, likesTab, onboarding,
                   otherVars>>

\* what handleLike does after its await, error telling whether the upsert
\* returned an error or threw
AfterLikeAnswer(call, error) ==
    IF error # NoError
    THEN [discover EXCEPT !.inflight = @ \ {call}, !.alert = TRUE]
    ELSE [discover EXCEPT !.inflight = @ \ {call},
                          !.currentIndex = call.currentIndex + 1,
                          !.currentPhotoIndex = 0]

\* the upsert of a handleLike call runs and its answer reaches the call
HandleLikeAnswered(call) ==
    /\ call \in discover.inflight
    /\ UpsertLike(user, call.liked_id, call.is_super_like)
    /\ discover' = AfterLikeAnswer(call, lastError')
    /\ UNCHANGED <<user, likesTab, onboarding,
                   otherVars>>

\* the upsert of a handleLike call never reaches the backend: it throws
HandleLikeThrows(call) ==
    /\ call \in discover.inflight
    /\ Refused("network_error")
    /\ discover' = AfterLikeAnswer(call, "network_error")
    /\ UNCHANGED <<user, likesTab, onboarding,
                   otherVars>>

\* nextPhoto / prevPhoto
NextPhoto ==
    /\ discover.currentIndex < Len(discover.profiles)
    /\ PhotosPerProfile > 1
    /\ discover' = [discover EXCEPT !.currentPhotoIndex =
           IF @ < PhotosPerProfile - 1 THEN @ + 1 ELSE 0]
    /\ UNCHANGED <<dbVars, subscribers, realtime, banners, txns, lastError,
                   nOps, user, likesTab, onboarding,
                   otherVars>>

PrevPhoto ==
    /\ discover.currentIndex < Len(discover.profiles)
    /\ PhotosPerProfile > 1
    /\ discover' = [discover EXCEPT !.currentPhotoIndex =
           IF @ > 0 THEN @ - 1 ELSE PhotosPerProfile - 1]
    /\ UNCHANGED <<dbVars, subscribers, realtime, banners, txns, lastError,
                   nOps, user, likesTab, onboarding,
                   otherVars>>

\* the realtime service delivers the oldest pending change to the device:
\* to its NotificationProvider and to the incoming_likes channel of the
\* DiscoverScreen, which opens the friend request modal
DeliverEventToDevice ==
    /\ realtime # << >>
    /\ banners' = [u \in Profiles |->
                     IF u \in subscribers
                     THEN banners[u]
                          \o ProviderHandler(profiles, matches, u, Head(realtime))
                     ELSE banners[u]]
    /\ realtime' = Tail(realtime)
    /\ discover' =
           IF /\ Head(realtime).table = "likes"
              /\ Head(realtime).new.liked_id = user
              /\ Head(realtime).new.liker_id \in DOMAIN profiles
           THEN [discover EXCEPT !.friendRequestModal =
                    [visible |-> TRUE, profile |-> Head(realtime).new.liker_id,
                     likeId |-> Head(realtime).new.id]]
           ELSE discover
    /\ UNCHANGED <<dbVars, subscribers, txns, lastError, nOps, user, likesTab,
                   onboarding,
                   otherVars>>

\* handleAcceptFriendRequest
HandleAcceptFriendRequest ==
    /\ discover.friendRequestModal.profile # NullId
    /\ discover.friendRequestModal.likeId # NoRow
    /\ UpsertLike(user, discover.friendRequestModal.profile, FALSE)
    /\ discover' =
           IF lastError' = NoError
           THEN [discover EXCEPT !.friendRequestModal =
                    [visible |-> FALSE, profile |-> NullId, likeId |-> NoRow]]
           ELSE [discover EXCEPT !.alert = TRUE]
    /\ UNCHANGED <<user, likesTab, onboarding,
                   otherVars>>

\* handleDeclineFriendRequest
HandleDeclineFriendRequest ==
    /\ discover.friendRequestModal.visible
    /\ discover' = [discover EXCEPT !.friendRequestModal =
           [visible |-> FALSE, profile |-> NullId, likeId |-> NoRow]]
    /\ UNCHANGED <<dbVars, subscribers, realtime, banners, txns, lastError,
                   nOps, user, likesTab, onboarding,
                   otherVars>>

\* the DiscoverScreen alone: the user goes through the fetched profiles
NextDiscover ==
    \/ FetchProfiles
    \/ HandlePass
    \/ \E isSuperLike \in BOOLEAN : HandleLikeSend(isSuperLike)
    \/ \E call \in discover.inflight : HandleLikeAnswered(call)
    \/ \E call \in discover.inflight : HandleLikeThrows(call)
    \/ NextPhoto
    \/ PrevPhoto

InitDiscover == InitDevice /\ subscribers = {}

SpecDiscover == InitDiscover /\ [][NextDiscover]_vars

\* a handleLike call learns that its write failed: the upsert returned an
\* error, or threw
LikeWriteFailed ==
    \/ \E call \in discover.inflight :
           HandleLikeAnswered(call) /\ lastError' # NoError
    \/ \E call \in discover.inflight : HandleLikeThrows(call)

\* a handleLike call learns that its write succeeded
LikeWriteSucceeded ==
    \E call \in discover.inflight :
        HandleLikeAnswered(call) /\ lastError' = NoError

\* C19: when the write of a like fails, handleLike shows an alert and leaves
\* currentIndex and currentPhotoIndex as they were; currentIndex changes only
\* by advancing by one, after a successful like write or on a pass; a pass
\* writes nothing to the backend.
C19_LikeFailureKeepsDeckAdvanceByOne ==
    [][ /\ LikeWriteFailed =>
              /\ discover'.alert
              /\ discover'.currentIndex = discover.currentIndex
              /\ discover'.currentPhotoIndex = discover.currentPhotoIndex
              /\ discover'.profiles = discover.profiles
        /\ discover'.currentIndex # discover.currentIndex =>
              /\ discover'.currentIndex = discover.currentIndex + 1
              /\ LikeWriteSucceeded \/ HandlePass
        /\ HandlePass => UNCHANGED <<dbVars, realtime>>
      ]_vars

\* the other users' likes of the device's user: the likes the queries and
\* the channel filters of the device's screens select (liked_id = user)
OthersLikeUser ==
    \E auth \in Profiles \ {user} : WriteLike(auth, user, FALSE)

\* every action of the device that writes a like, with the fetches and the
\* realtime events that feed them
NextLikeWriters ==
    \/ OthersLikeUser
    \/ FetchProfiles
    \/ HandleLikeSend(FALSE)
    \/ \E call \in discover.inflight : HandleLikeAnswered(call)
    \/ DeliverEventToDevice
    \/ HandleAcceptFriendRequest
    \/ FetchPendingLikes
    \/ \E like \in likes : HandleLikeProfile(like)
    \/ HandleAcceptLike

\* the device with its NotificationProvider mounted
InitLikeWriters == InitDevice /\ subscribers = {user}

SpecLikeWriters == InitLikeWriters /\ [][NextLikeWriters]_vars

\* C16: no action of the device that writes a like (handleLike,
\* handleAcceptFriendRequest, handleAcceptLike) writes a row whose liker_id
\* equals its liked_id, from a store without self-likes.
C16_ClientWritesNoSelfLike ==
    [][ \A l \in likes' \ likes : l.liker_id # l.liked_id ]_vars

\* the user has liked one profile back from the likes tab and another one
\* from the discovery deck
C16_Witness ==
    /\ likesTab.activeTab = "matches"
    /\ discover.currentIndex > 0
    /\ Cardinality({ l \in likes : l.liker_id = user }) = 2

(***************************************************************************)
(* OnboardingScreen of the device.                                         *)
(***************************************************************************)
\* the limits of validateStep
MinPhoneLength == 10
MinAge == 18
MaxAge == 100
MinInterests == 3
MinPhotos == 2

\* the photos picked in the model
MaxPhotosPicked == 2

onboardingSteps ==
    << [id |-> "phone", type |-> "phone", field |-> "phone"],
       [id |-> "location", type |-> "location", field |-> "city"],
       [id |-> "name", type |-> "text", field |-> "first_name"],
       [id |-> "age", type |-> "age", field |-> "age"],
       [id |-> "looking_for", type |-> "select", field |-> "looking_for"],
       [id |-> "interests", type |-> "multi_select", field |-> "interests"],
       [id |-> "lifestyle", type |-> "lifestyle", field |-> "smoking"],
       [id |-> "bio", type |-> "textarea", field |-> "bio"],
       [id |-> "photos", type |-> "photos", field |-> "photos"] >>

\* the step on display
CurrentStepData == onboardingSteps[onboarding.currentStep + 1]

\* what the inputs of the steps hand to updateAnswer
PhoneInputs == { << >>, Rep("9", MinPhoneLength - 1), Rep("9", MinPhoneLength) }
CityInputs == { << >>, <<"P", "u", "n", "e">> }
NameInputs == { <<" ", " ">>, <<" ", "A", "l", " ">> }
AgeInputs == { MinAge - 1, MinAge, MaxAge, MaxAge + 1 }
\* (the value of an option is kept whole, as a one-element tuple)
LookingForOptions == { <<"relationship">> }
InterestOptions == { "travel", "music", "sports" }
LifestyleOptions == { <<"never">> }
BioInputs == { <<"h", "i">> }
PhotoInputs == { [i \in 1..n |-> i] : n \in 0..MaxPhotosPicked }

\* String.prototype.trim
RECURSIVE TrimStart(_)
TrimStart(t) == IF t # << >> /\ Head(t) = " " THEN TrimStart(Tail(t)) ELSE t

RECURSIVE TrimEnd(_)
TrimEnd(t) ==
    IF t # << >> /\ t[Len(t)] = " " THEN TrimEnd(SubSeq(t, 1, Len(t) - 1)) ELSE t

Trim(t) == TrimEnd(TrimStart(t))

\* !value, of a string and of a number (answers.age is 0 while undefined)
Falsy(value) == value = Undefined \/ value = << >>
FalsyNumber(value) == value = 0

\* validateStep with the age step accepting every age given
validateStepWithoutAgeRange(currentStep, answers) ==
    LET currentStepData == onboardingSteps[currentStep + 1]
    IN  CASE currentStepData.type = "phone" ->
                 ~ (Falsy(answers.phone) \/ Len(answers.phone) < MinPhoneLength)
          [] currentStepData.type = "location" -> ~ Falsy(answers.city)
          [] currentStepData.type = "text" ->
                 ~ (Falsy(answers.first_name) \/ Len(Trim(answers.first_name)) = 0)
          [] currentStepData.type = "age" -> ~ FalsyNumber(answers.age)
          [] currentStepData.type = "select" -> ~ Falsy(answers.looking_for)
          [] currentStepData.type = "multi_select" ->
                 ~ (Cardinality(answers.interests) < MinInterests)
          [] currentStepData.type = "lifestyle" ->
                 ~ (Falsy(answers.smoking) \/ Falsy(answers.drinking))
          [] currentStepData.type = "photos" ->
                 ~ (Len(answers.photos) < MinPhotos)
          [] OTHER -> TRUE

\* validateStep: TRUE when the answers pass the check of the step
validateStep(currentStep, answers) ==
    LET currentStepData == onboardingSteps[currentStep + 1]
    IN  CASE currentStepData.type = "phone" ->
                 ~ (Falsy(answers.phone) \/ Len(answers.phone) < MinPhoneLength)
          [] currentStepData.type = "location" -> ~ Falsy(answers.city)
          [] currentStepData.type = "text" ->
                 ~ (Falsy(answers.first_name) \/ Len(Trim(answers.first_name)) = 0)
          [] currentStepData.type = "age" ->
                 ~ (FalsyNumber(answers.age) \/ answers.age < MinAge \/ answers.age > MaxAge)
          [] currentStepData.type = "select" -> ~ Falsy(answers.looking_for)
          [] currentStepData.type = "multi_select" ->
                 ~ (Cardinality(answers.interests) < MinInterests)
          [] currentStepData.type = "lifestyle" ->
                 ~ (Falsy(answers.smoking) \/ Falsy(answers.drinking))
          [] currentStepData.type = "photos" ->
                 ~ (Len(answers.photos) < MinPhotos)
          [] OTHER -> TRUE

\* updateAnswer(key, value), called by the input of the step on display
UpdateAnswer(type, answers) ==
    /\ CurrentStepData.type = type
    /\ answers # onboarding.answers
    /\ onboarding' = [onboarding EXCEPT !.answers = answers]
    /\ UNCHANGED <<dbVars, subscribers, realtime, banners, txns, lastError,
                   nOps, user, discover, likesTab,
                   otherVars>>

\* the inputs of the steps
EnterPhone ==
    \E value \in PhoneInputs :
        UpdateAnswer("phone", [onboarding.answers EXCEPT !.phone = value])

HandleLocationSelected ==
    \E city \in CityInputs :
        UpdateAnswer("location", [onboarding.answers EXCEPT !.city = city])

EnterText ==
    \E value \in NameInputs :
        UpdateAnswer("text", [onboarding.answers EXCEPT !.first_name = value])

OnAgeSelected ==
    \E age \in AgeInputs :
        UpdateAnswer("age", [onboarding.answers EXCEPT !.age = age])

SelectOption ==
    \E value \in LookingForOptions :
        UpdateAnswer("select", [onboarding.answers EXCEPT !.looking_for = value])

ToggleInterest ==
    \E optionLower \in InterestOptions :
        UpdateAnswer("multi_select", [onboarding.answers EXCEPT !.interests =
            IF optionLower \in @ THEN @ \ {optionLower} ELSE @ \cup {optionLower}])

SelectSmoking ==
    \E option \in LifestyleOptions :
        UpdateAnswer("lifestyle", [onboarding.answers EXCEPT !.smoking = option])

SelectDrinking ==
    \E option \in LifestyleOptions :
        UpdateAnswer("lifestyle", [onboarding.answers EXCEPT !.drinking = option])

EnterBio ==
    \E value \in BioInputs :
        UpdateAnswer("textarea", [onboarding.answers EXCEPT !.bio = value])

OnPhotosChange ==
    \E photos \in PhotoInputs :
        UpdateAnswer("photos", [onboarding.answers EXCEPT !.photos = photos])

\* the Back button
HandleBack ==
    /\ onboarding.currentStep > 0
    /\ onboarding' = [onboarding EXCEPT !.currentStep = @ - 1]
    /\ UNCHANGED <<dbVars, subscribers, realtime, banners, txns, lastError,
                   nOps, user, discover, likesTab,
                   otherVars>>

\* handleNext, the Continue / Complete button: on the last step it calls
\* completeOnboarding, which starts the upload of the photos of its answers
HandleNext ==
    /\ ~ onboarding.loading
    /\ onboarding' =
           IF ~ validateStep(onboarding.currentStep, onboarding.answers)
           THEN [onboarding EXCEPT !.alert = TRUE]
           ELSE IF onboarding.currentStep < Len(onboardingSteps) - 1
           THEN [onboarding EXCEPT !.currentStep = @ + 1]
           ELSE [onboarding EXCEPT !.loading = TRUE,
                                   !.upload = @ \cup {onboarding.answers}]
    /\ UNCHANGED <<dbVars, subscribers, realtime, banners, txns, lastError,
                   nOps, user, discover, likesTab,
                   otherVars>>

\* completeOnboarding after the upload: the insert of the profile is sent
\* with the answers of the call
UploadAnswered(answers) ==
    /\ answers \in onboarding.upload
    /\ onboarding' = [onboarding EXCEPT !.upload = @ \ {answers},
                                        !.insert = @ \cup {answers}]
    /\ UNCHANGED <<dbVars, subscribers, realtime, banners, txns, lastError,
                   nOps, user, discover, likesTab,
                   otherVars>>

\* uploadPhotosToStorage throws
UploadThrows(answers) ==
    /\ answers \in onboarding.upload
    /\ onboarding' = [onboarding EXCEPT !.upload = @ \ {answers},
                                        !.alert = TRUE, !.loading = FALSE]
    /\ UNCHANGED <<dbVars, subscribers, realtime, banners, txns, lastError,
                   nOps, user, discover, likesTab,
                   otherVars>>

\* "Users can insert own profile"
RlsProfilesInsert(auth, id) == auth = id

\* the insert of the profile runs and its answer reaches completeOnboarding
InsertAnswered(answers) ==
    /\ answers \in onboarding.insert
    /\ IF RlsProfilesInsert(user, user) /\ user \notin DOMAIN profiles
       THEN /\ profiles' = [id \in DOMAIN profiles \cup {user} |->
                               IF id = user
                               THEN [first_name |-> answers.first_name]
                               ELSE profiles[id]]
            /\ lastError' = NoError
            /\ onboarding' = [onboarding EXCEPT !.insert = @ \ {answers},
                                                !.loading = FALSE]
       ELSE /\ lastError' = "duplicate_key"
            /\ onboarding' = [onboarding EXCEPT !.insert = @ \ {answers},
                                                !.alert = TRUE, !.loading = FALSE]
            /\ UNCHANGED profiles
    /\ UNCHANGED <<likes, matches, messages, notifications, likeGen,
                   subscribers, realtime, banners, txns, nOps, user, discover,
                   likesTab,
                   otherVars>>

\* a signed-in user without a profile on the OnboardingScreen
InitOnboarding ==
    /\ user = 1
    /\ profiles = [p \in Profiles \ {user} |-> [first_name |-> OnboardingName(p)]]
    /\ InitOtherTables
    /\ InitScreens
    /\ subscribers = {}

NextOnboarding ==
    \/ EnterPhone
    \/ HandleLocationSelected
    \/ EnterText
    \/ OnAgeSelected
    \/ SelectOption
    \/ ToggleInterest
    \/ SelectSmoking
    \/ SelectDrinking
    \/ EnterBio
    \/ OnPhotosChange
    \/ HandleBack
    \/ HandleNext
    \/ \E answers \in onboarding.upload : UploadAnswered(answers)
    \/ \E answers \in onboarding.upload : UploadThrows(answers)
    \/ \E answers \in onboarding.insert : InsertAnswered(answers)

SpecOnboarding == InitOnboarding /\ [][NextOnboarding]_vars

\* the checks the onboarding answers have to pass, all of them
AnswersComplete(answers) ==
    /\ answers.phone # Undefined /\ Len(answers.phone) >= 10
    /\ answers.city \notin {Undefined, << >>}
    /\ answers.first_name # Undefined
    /\ \E i \in 1..Len(answers.first_name) : answers.first_name[i] # " "
    /\ answers.age \in 18..100
    /\ answers.looking_for # Undefined
    /\ Cardinality(answers.interests) >= 3
    /\ answers.smoking # Undefined /\ answers.drinking # Undefined
    /\ Len(answers.photos) >= 2

\* C20: under any sequence of Continue, Back and edits of the answers, the
\* photo upload is started, and the profile insert is sent, only with
\* answers that pass every step's validation; the upload is started with
\* the answers on the screen.
C20_CompletesOnlyWithValidAnswers ==
    [][ /\ \A answers \in onboarding'.upload \ onboarding.upload :
               answers = onboarding.answers /\ AnswersComplete(answers)
        /\ \A answers \in onboarding'.insert \ onboarding.insert :
               AnswersComplete(answers)
      ]_vars

\* the insert has been sent after a step had refused its answers or an
\* upload had failed, and the user had gone back
C20_Witness ==
    /\ onboarding.insert # {}
    /\ onboarding.alert
    /\ onboarding.currentStep < Len(onboardingSteps) - 1

(***************************************************************************)
(* NotificationsScreen of the device.                                      *)
(***************************************************************************)
\* the error a request answers with when the backend fails to run it
BackendFailed == "backend_failed"

\* "Users can read / update / delete own notifications"
RlsNotificationsOwn(auth, row) == auth = row.user_id

\* object?.key: undefined when the object has no such key
JsGet(object, key) == IF key \in DOMAIN object THEN object[key] ELSE Undefined

\* fetchNotifications, at mount and on every event of the
\* notifications_realtime channel (created_at, the order of the list, is
\* not part of the rows)
FetchNotifications ==
    /\ notifScreen' = [notifScreen EXCEPT
           !.notifications = { n \in notifications : RlsNotificationsOwn(user, n) },
           !.loading = FALSE]
    /\ UNCHANGED <<dbVars, subscribers, realtime, banners, txns, lastError,
                   nOps, user, discover, likesTab, onboarding, chat, userStatus,
                   statusWrites, profileScreen, provider, now>>

\* update({ read: true }).eq('id', notificationId): the table after the
\* request, answered with error
UpdateNotificationRead(auth, notificationId, error) ==
    IF error # NoError THEN notifications
    ELSE { IF n.id = notificationId /\ RlsNotificationsOwn(auth, n)
           THEN [n EXCEPT !.read = TRUE] ELSE n : n \in notifications }

\* delete().eq('id', notificationId): the table after the request
DeleteNotificationRow(auth, notificationId, error) ==
    IF error # NoError THEN notifications
    ELSE { n \in notifications :
             ~ (n.id = notificationId /\ RlsNotificationsOwn(auth, n)) }

\* the setNotifications of markAsRead
LocalMarkedRead(list, notificationId) ==
    { IF notif.id = notificationId THEN [notif EXCEPT !.read = TRUE] ELSE notif :
        notif \in list }

\* markAsRead: the answer of the update is awaited and not looked at
MarkAsRead(notificationId, error) ==
    /\ \E notif \in notifScreen.notifications : notif.id = notificationId
    /\ notifications' = UpdateNotificationRead(user, notificationId, error)
    /\ lastError' = error
    /\ notifScreen' = [notifScreen EXCEPT !.notifications =
                          LocalMarkedRead(@, notificationId)]
    /\ UNCHANGED <<profiles, likes, matches, messages, likeGen, subscribers,
                   realtime, banners, txns, nOps, user, discover, likesTab,
                   onboarding, chat, userStatus, statusWrites, profileScreen,
                   provider, now>>

\* deleteNotification: the answer of the delete is awaited and not looked at
DeleteNotification(notificationId, error) ==
    /\ \E notif \in notifScreen.notifications : notif.id = notificationId
    /\ notifications' = DeleteNotificationRow(user, notificationId, error)
    /\ lastError' = error
    /\ notifScreen' = [notifScreen EXCEPT !.notifications =
                          { notif \in @ : notif.id # notificationId }]
    /\ UNCHANGED <<profiles, likes, matches, messages, likeGen, subscribers,
                   realtime, banners, txns, nOps, user, discover, likesTab,
                   onboarding, chat, userStatus, statusWrites, profileScreen,
                   provider, now>>

\* the router.push of handleNotificationPress
NotificationRoute(notification) ==
    CASE notification.type \in {"like", "super_like", "match"} ->
             [pathname |-> "/(tabs)/matches"]
      [] notification.type = "message" ->
             IF JsGet(notification.data, "matchId") # Undefined
             THEN [pathname |-> "/chat",
                   matchId |-> JsGet(notification.data, "matchId")]
             ELSE notifScreen.route
      [] OTHER -> notifScreen.route

\* handleNotificationPress: markAsRead when unread, then the navigation
HandleNotificationPress(notification, error) ==
    /\ notification \in notifScreen.notifications
    /\ IF ~ notification.read
       THEN /\ notifications' = UpdateNotificationRead(user, notification.id, error)
            /\ lastError' = error
            /\ notifScreen' = [notifScreen EXCEPT
                   !.notifications = LocalMarkedRead(@, notification.id),
                   !.route = NotificationRoute(notification)]
       ELSE /\ error = NoError
            /\ notifScreen' = [notifScreen EXCEPT
                   !.route = NotificationRoute(notification)]
            /\ UNCHANGED <<notifications, lastError>>
    /\ UNCHANGED <<profiles, likes, matches, messages, likeGen, subscribers,
                   realtime, banners, txns, nOps, user, discover, likesTab,
                   onboarding, chat, userStatus, statusWrites, profileScreen,
                   provider, now>>

Outcomes == {NoError, BackendFailed}

\* the requests that create notifications for the device's user: likes
\* between the user and the others, and messages sent to the user
NotificationsFeed ==
    \/ \E other \in Profiles \ {user} : WriteLike(other, user, FALSE)
    \/ \E other \in Profiles \ {user} : WriteLike(user, other, FALSE)
    \/ \E other \in Profiles \ {user}, m \in matches :
           SendMessage(other, m.id, Rep("a", PreviewLen))

NextNotifications ==
    \/ NotificationsFeed
    \/ FetchNotifications
    \/ \E n \in notifScreen.notifications, error \in Outcomes :
           MarkAsRead(n.id, error)
    \/ \E n \in notifScreen.notifications, error \in Outcomes :
           DeleteNotification(n.id, error)
    \/ \E n \in notifScreen.notifications, error \in Outcomes :
           HandleNotificationPress(n, error)

InitNotifications == InitDevice /\ subscribers = {}

SpecNotifications == InitNotifications /\ [][NextNotifications]_vars

\* C21: pressing a message notification the database created navigates to
\* the chat of the match named in its payload.
C21_MessageNotificationOpensItsChat ==
    [][ \A n \in notifScreen.notifications, error \in Outcomes :
            (n.type = "message" /\ HandleNotificationPress(n, error))
            => notifScreen'.route =
                   [pathname |-> "/chat", matchId |-> n.data.match_id]
      ]_vars

\* C22: when the update of markAsRead or the delete of deleteNotification
\* answers with an error, the local list is left as it was.
C22_FailedRequestKeepsLocalList ==
    [][ \A n \in notifScreen.notifications :
            (MarkAsRead(n.id, BackendFailed) \/ DeleteNotification(n.id, BackendFailed))
            => notifScreen'.notifications = notifScreen.notifications
      ]_vars

(***************************************************************************)
(* ChatScreen of the device, opened on one match of its user.  The column  *)
(* read_at of messages and the status of the other user shown in the       *)
(* header are not part of the rows and of the screen state kept here.      *)
(***************************************************************************)
MaxChatMessages == 2
MaxStatusWrites == 3

\* the requests of a run: the two likes of the match and the messages
ChatOpsLimit == 2 + MaxChatMessages

\* what the user types and the heart of sendLike
TypedTexts == { << >>, <<" ">>, <<"h", "i">> }
HeartText == <<"U+2764">>

storeVars == <<dbVars, subscribers, realtime, banners, txns, lastError, nOps>>

\* the device outside the chat screen
notChatVars == <<user, discover, likesTab, onboarding, notifScreen,
                 profileScreen, provider, now>>

\* select('*').eq('match_id', matchId).order('created_at'): the rows of the
\* match in the order of their insertion
RECURSIVE MessagesInOrder(_, _, _)
MessagesInOrder(msgs, matchId, k) ==
    IF \E m \in msgs : m.id = <<"messages", matchId, k>>
    THEN << CHOOSE m \in msgs : m.id = <<"messages", matchId, k>> >>
         \o MessagesInOrder(msgs, matchId, k + 1)
    ELSE << >>

\* the upsert of updateOnlineStatus and of updateTypingStatus
OnlineStatusWrite(isOnline) == [is_online |-> isOnline, is_typing |-> FALSE]
TypingStatusWrite(typing) == [is_typing |-> typing]

\* INSERT ... ON CONFLICT (user_id) DO UPDATE of the columns given, the
\* other columns at their value or, for a new row, at their DEFAULT false
UpsertStatus(row, write) ==
    LET old == IF row = NoRow THEN [is_online |-> FALSE, is_typing |-> FALSE]
               ELSE row
    IN  [c \in {"is_online", "is_typing"} |->
            IF c \in DOMAIN write THEN write[c] ELSE old[c]]

\* the likes that make the matches of the user
MatchUp ==
    /\ \E other \in Profiles \ {user} :
           WriteLike(user, other, FALSE) \/ WriteLike(other, user, FALSE)

\* router.push('/chat'): the screen mounts and its effect runs
\* (fetchMessages sent, the channel subscribed, updateOnlineStatus(true))
OpenChat(matchId) ==
    /\ ~ chat.mounted /\ ~ chat.unmounted
    /\ \E m \in matches : m.id = matchId /\ user \in {m.user1_id, m.user2_id}
    /\ chat' = [ChatClosed EXCEPT !.mounted = TRUE, !.matchId = matchId,
                                  !.fetch = "sent", !.channel = TRUE]
    /\ statusWrites' = Append(statusWrites, OnlineStatusWrite(TRUE))
    /\ UNCHANGED <<storeVars, notChatVars, userStatus>>

\* the select of fetchMessages runs on the backend
FetchMessagesRuns ==
    /\ chat.fetch = "sent"
    /\ chat' = [chat EXCEPT !.fetch = "answered",
                            !.fetched = MessagesInOrder(messages, chat.matchId, 0)]
    /\ UNCHANGED <<storeVars, notChatVars, userStatus, statusWrites>>

\* the answer reaches fetchMessages: setMessages(messages), which React
\* drops once the screen is unmounted
FetchMessagesAnswered ==
    /\ chat.fetch = "answered"
    /\ chat' = IF chat.mounted
               THEN [chat EXCEPT !.fetch = "none", !.messages = chat.fetched,
                                 !.received = @ \cup { chat.fetched[i] :
                                                        i \in 1..Len(chat.fetched) },
                                 !.loading = FALSE]
               ELSE [chat EXCEPT !.fetch = "none"]
    /\ UNCHANGED <<storeVars, notChatVars, userStatus, statusWrites>>

\* the select of fetchMessages fails
FetchMessagesFails ==
    /\ chat.fetch = "sent"
    /\ chat' = IF chat.mounted
               THEN [chat EXCEPT !.fetch = "none", !.loading = FALSE]
               ELSE [chat EXCEPT !.fetch = "none"]
    /\ UNCHANGED <<storeVars, notChatVars, userStatus, statusWrites>>

\* the events of the 'messages' channel after the insert of the row new
\* was answered with error
Pushed(new, error) ==
    IF chat.channel /\ error = NoError /\ new.match_id = chat.matchId
    THEN Append(chat.events, new) ELSE chat.events

\* the other user of a match sends a message
PeerSendsMessage ==
    \E m \in matches : \E peer \in {m.user1_id, m.user2_id} \ {user} :
        /\ user \in {m.user1_id, m.user2_id}
        /\ InsertMessageRows(ChatOpsLimit, TRUE, peer, m.id, peer, <<"y", "o">>)
        /\ chat' = [chat EXCEPT !.events =
                       Pushed(NewMessage(m.id, peer, <<"y", "o">>), lastError')]
        /\ UNCHANGED <<notChatVars, userStatus, statusWrites>>

\* the INSERT handler of the 'messages' channel: the row is appended
DeliverMessageEvent ==
    /\ chat.channel
    /\ chat.events # << >>
    /\ chat' = IF chat.mounted
               THEN [chat EXCEPT !.events = Tail(@),
                                 !.messages = Append(@, Head(chat.events)),
                                 !.received = @ \cup {Head(chat.events)}]
               ELSE [chat EXCEPT !.events = Tail(@)]
    /\ UNCHANGED <<storeVars, notChatVars, userStatus, statusWrites>>

\* sendMessage(content, type) up to its await: the insert is sent
SendMessageSend(content, type) ==
    /\ chat.mounted
    /\ ~ (Trim(content) = << >> /\ type = "text")
    /\ Cardinality(chat.sending) < MaxInflight
    /\ chat' = [chat EXCEPT !.sending = @ \cup
           {[content |-> IF Trim(content) = << >> THEN HeartText ELSE Trim(content),
             type |-> type]}]
    /\ UNCHANGED <<storeVars, notChatVars, userStatus, statusWrites>>

\* the Send button, sendLike
PressSend == SendMessageSend(chat.newMessage, "text")
SendLike == SendMessageSend(HeartText, "like")

\* the insert of a sendMessage call runs and its answer reaches the call
SendMessageAnswered(call) ==
    /\ call \in chat.sending
    /\ InsertMessageRows(ChatOpsLimit, TRUE, user, chat.matchId, user, call.content)
    /\ LET events == Pushed(NewMessage(chat.matchId, user, call.content), lastError')
       IN  IF lastError' = NoError
           THEN /\ chat' = IF chat.mounted
                           THEN [chat EXCEPT
                                    !.sending = @ \ {call}, !.events = events,
                                    !.newMessage = IF call.type = "text"
                                                   THEN << >> ELSE @]
                           ELSE [chat EXCEPT !.sending = @ \ {call},
                                             !.events = events]
                /\ statusWrites' = Append(statusWrites, TypingStatusWrite(FALSE))
           ELSE /\ chat' = [chat EXCEPT !.sending = @ \ {call}, !.alert = TRUE]
                /\ UNCHANGED statusWrites
    /\ UNCHANGED <<notChatVars, userStatus>>

\* handleTextChange
HandleTextChange(text) ==
    /\ chat.mounted
    /\ text # chat.newMessage
    /\ Len(statusWrites) < MaxStatusWrites
    /\ IF Len(text) > 0 /\ ~ chat.isTyping
       THEN /\ chat' = [chat EXCEPT !.newMessage = text, !.isTyping = TRUE,
                                    !.typingTimeout = TRUE]
            /\ statusWrites' = Append(statusWrites, TypingStatusWrite(TRUE))
       ELSE /\ chat' = [chat EXCEPT !.newMessage = text, !.typingTimeout = TRUE]
            /\ UNCHANGED statusWrites
    /\ UNCHANGED <<storeVars, notChatVars, userStatus>>

\* the callback of the typing timer
TypingTimeoutFires ==
    /\ chat.typingTimeout
    /\ chat' = [chat EXCEPT !.isTyping = FALSE, !.typingTimeout = FALSE]
    /\ statusWrites' = Append(statusWrites, TypingStatusWrite(FALSE))
    /\ UNCHANGED <<storeVars, notChatVars, userStatus>>

\* the backend applies the oldest upsert of user_status
ApplyStatusWrite ==
    /\ statusWrites # << >>
    /\ userStatus' = [userStatus EXCEPT
                         ![user] = UpsertStatus(@, Head(statusWrites))]
    /\ statusWrites' = Tail(statusWrites)
    /\ UNCHANGED <<storeVars, notChatVars, chat>>

\* the cleanup of the effect without its clearTimeout
UnmountChatKeepingTimer ==
    /\ chat.mounted
    /\ chat' = [chat EXCEPT !.mounted = FALSE, !.unmounted = TRUE]
    /\ statusWrites' = Append(statusWrites, OnlineStatusWrite(FALSE))
    /\ UNCHANGED <<storeVars, notChatVars, userStatus>>

\* the screen unmounts: the cleanup of its effect runs
\* (updateOnlineStatus(false), clearTimeout); no channel is removed
UnmountChat ==
    /\ chat.mounted
    /\ chat' = [chat EXCEPT !.mounted = FALSE, !.unmounted = TRUE,
                            !.typingTimeout = FALSE]
    /\ statusWrites' = Append(statusWrites, OnlineStatusWrite(FALSE))
    /\ UNCHANGED <<storeVars, notChatVars, userStatus>>

InitChat == InitDevice /\ subscribers = {} /\ user = 1

\* the messages of the chat: the fetch, the channel and the sends
NextChat ==
    \/ MatchUp
    \/ \E m \in matches : OpenChat(m.id)
    \/ FetchMessagesRuns
    \/ FetchMessagesAnswered
    \/ FetchMessagesFails
    \/ PeerSendsMessage
    \/ DeliverMessageEvent
    \/ SendLike
    \/ \E call \in chat.sending : SendMessageAnswered(call)
    \/ UnmountChat

SpecChat == InitChat /\ [][NextChat]_vars

\* the status of the user: typing, sending, leaving the screen
NextTyping ==
    \/ MatchUp
    \/ \E m \in matches : OpenChat(m.id)
    \/ \E text \in TypedTexts : HandleTextChange(text)
    \/ TypingTimeoutFires
    \/ PressSend
    \/ \E call \in chat.sending : SendMessageAnswered(call)
    \/ ApplyStatusWrite
    \/ UnmountChat

SpecTyping == InitChat /\ [][NextTyping]_vars

\* C23: once the chat screen is unmounted its realtime channel is
\* unregistered, and no push and no late response changes its state.
C23_UnmountedScreenHasNoChannel ==
    [][ chat'.unmounted =>
            /\ ~ chat'.channel
            /\ chat.unmounted =>
                   /\ chat'.messages = chat.messages
                   /\ chat'.loading = chat.loading
                   /\ chat'.newMessage = chat.newMessage
      ]_vars

\* C24: no message id appears twice in the displayed list of the chat
\* screen, however the fetch and the INSERT events interleave.
C24_NoMessageDisplayedTwice ==
    \A i, j \in 1..Len(chat.messages) :
        i # j => chat.messages[i].id # chat.messages[j].id

\* C25: once the fetch has been applied and no event is pending, every
\* message the screen received, in the fetch result or in an INSERT event,
\* is in the displayed list.
C25_ReceivedMessagesAreDisplayed ==
    (chat.mounted /\ chat.fetch = "none" /\ chat.events = << >>)
    => \A m \in chat.received :
           \E i \in 1..Len(chat.messages) : chat.messages[i] = m

\* the backend applies the status writes in the order issued, each of them
\* in the end
SpecTypingFair == SpecTyping /\ WF_vars(ApplyStatusWrite)

\* C27: whenever no status write is in flight, the isTyping flag of the
\* chat screen equals the is_typing value the client wrote last.
C27_IsTypingMatchesLastWrite ==
    (chat.mounted /\ statusWrites = << >> /\ userStatus[user] # NoRow)
    => chat.isTyping = userStatus[user].is_typing

\* C28: the unmount of the chat screen cancels the typing timer and issues
\* the write is_online = false, is_typing = false; no write issued after it
\* sets is_online or is_typing to true; and the status of the user ends up
\* offline and not typing.
C28_UnmountLeavesUserOffline ==
    /\ [][ /\ (chat.mounted /\ chat'.unmounted) =>
                  /\ ~ chat'.typingTimeout
                  /\ statusWrites' = Append(statusWrites,
                         [is_online |-> FALSE, is_typing |-> FALSE])
           /\ (chat.unmounted /\ Len(statusWrites') > Len(statusWrites)) =>
                  LET write == statusWrites'[Len(statusWrites')]
                  IN  /\ write.is_typing = FALSE
                      /\ "is_online" \in DOMAIN write => write.is_online = FALSE
         ]_vars
    /\ [](chat.unmounted =>
             <>[](/\ userStatus[user] # NoRow
                  /\ userStatus[user].is_online = FALSE
                  /\ userStatus[user].is_typing = FALSE))

\* the user typed, sent and left before the answer of the send; the status
\* has settled
C28_Witness ==
    /\ chat.unmounted
    /\ chat.isTyping
    /\ chat.sending = {}
    /\ Cardinality(messages) > 0
    /\ statusWrites = << >>
    /\ userStatus[user] = [is_online |-> FALSE, is_typing |-> FALSE]

\* C26: when the user has gone through the deck and presses Refresh, and
\* fetchProfiles returns at least one profile, a profile card is displayed.
C26_RefreshShowsAProfile ==
    [][ (/\ ~ discover.loading
         /\ discover.currentIndex >= Len(discover.profiles)
         /\ FetchProfiles
         /\ Len(discover'.profiles) > 0)
        => discover'.currentIndex < Len(discover'.profiles)
      ]_vars

(***************************************************************************)
(* ProfileScreen of the device.  A profile row is its first_name.          *)
(***************************************************************************)
\* what the user types in the first name field of the edit form
FirstNameInputs == EditedNames \cup { <<"N", "e", "w">> }

notProfileVars == <<user, discover, likesTab, onboarding, notifScreen, chat,
                    userStatus, statusWrites, provider, now>>

\* fetchProfile, at mount
FetchProfile ==
    /\ profileScreen.loading
    /\ user \in DOMAIN profiles
    /\ profileScreen' = [profileScreen EXCEPT !.profile = profiles[user],
                                              !.editData = profiles[user],
                                              !.loading = FALSE]
    /\ UNCHANGED <<storeVars, notProfileVars>>

\* the Edit button
PressEdit ==
    /\ profileScreen.profile # NoRow
    /\ ~ profileScreen.editing
    /\ profileScreen' = [profileScreen EXCEPT !.editing = TRUE]
    /\ UNCHANGED <<storeVars, notProfileVars>>

\* onChangeText of the first name field
EditFirstName(text) ==
    /\ profileScreen.editing
    /\ text # profileScreen.editData.first_name
    /\ profileScreen' = [profileScreen EXCEPT !.editData.first_name = text]
    /\ UNCHANGED <<storeVars, notProfileVars>>

\* the Cancel button: setEditing(false)
PressCancel ==
    /\ profileScreen.editing
    /\ profileScreen' = [profileScreen EXCEPT !.editing = FALSE]
    /\ UNCHANGED <<storeVars, notProfileVars>>

\* handleSave: update(editData).eq('id', user.id), answered with error
HandleSave(error) ==
    /\ profileScreen.profile # NoRow
    /\ profileScreen.editing
    /\ lastError' = error
    /\ IF error = NoError /\ RlsProfilesUpdate(user, user)
       THEN /\ profiles' = [profiles EXCEPT ![user] = profileScreen.editData]
            /\ profileScreen' = [profileScreen EXCEPT
                   !.profile = profileScreen.editData, !.editing = FALSE,
                   !.sent = profileScreen.editData]
       ELSE /\ profileScreen' = [profileScreen EXCEPT
                   !.alert = TRUE, !.sent = profileScreen.editData]
            /\ UNCHANGED profiles
    /\ UNCHANGED <<likes, matches, messages, notifications, likeGen,
                   subscribers, realtime, banners, txns, nOps, notProfileVars>>

NextProfile ==
    \/ FetchProfile
    \/ PressEdit
    \/ \E text \in FirstNameInputs : EditFirstName(text)
    \/ PressCancel
    \/ \E error \in Outcomes : HandleSave(error)

InitProfile == InitDevice /\ subscribers = {}

SpecProfile == InitProfile /\ [][NextProfile]_vars

\* C29: Cancel discards the edits: when Edit opens the form again it holds
\* the profile as displayed and stored, so that a Save with no change made
\* sends none of the cancelled changes and leaves the stored profile as it
\* was.
C29_CancelDiscardsEdits ==
    [][ /\ PressEdit =>
               /\ profileScreen.editData = profileScreen.profile
               /\ profileScreen.editData = profiles[user]
        /\ (HandleSave(NoError) /\ profileScreen.editData = profileScreen.profile)
               => profiles' = profiles
      ]_vars

(***************************************************************************)
(* The banner list of the NotificationProvider of the device.              *)
(***************************************************************************)
MaxBanners == 3
MaxNow == 3

BannerTypes == {"like", "message", "match"}

notProviderVars == <<user, discover, likesTab, onboarding, notifScreen, chat,
                     userStatus, statusWrites, profileScreen>>

\* a millisecond passes
Tick ==
    /\ now < MaxNow
    /\ now' = now + 1
    /\ UNCHANGED <<storeVars, notProviderVars, provider>>

\* showNotification: the id of the banner is Date.now().toString()
ShowNotification(type) ==
    /\ Len(provider) < MaxBanners
    /\ provider' = Append(provider, [id |-> ToString(now), type |-> type])
    /\ UNCHANGED <<storeVars, notProviderVars, now>>

\* prev.filter(n => n.id !== id)
RECURSIVE WithoutId(_, _)
WithoutId(list, id) ==
    IF list = << >> THEN << >>
    ELSE (IF Head(list).id # id THEN <<Head(list)>> ELSE << >>)
         \o WithoutId(Tail(list), id)

\* dismissNotification(id), by the X of a banner or its timer
DismissNotification(id) ==
    /\ \E i \in 1..Len(provider) : provider[i].id = id
    /\ provider' = WithoutId(provider, id)
    /\ UNCHANGED <<storeVars, notProviderVars, now>>

\* clearAllNotifications
ClearAllNotifications ==
    /\ provider # << >>
    /\ provider' = << >>
    /\ UNCHANGED <<storeVars, notProviderVars, now>>

NextProvider ==
    \/ Tick
    \/ \E type \in BannerTypes : ShowNotification(type)
    \/ \E i \in 1..Len(provider) : DismissNotification(provider[i].id)
    \/ ClearAllNotifications

InitProvider == InitDevice /\ subscribers = {}

SpecProvider == InitProvider /\ [][NextProvider]_vars

\* C30: the banners of the list have ids distinct from one another, and
\* dismissNotification(id) removes exactly one banner.
C30_BannerIdsAreDistinct ==
    [][ /\ \A i, j \in 1..Len(provider') :
               i # j => provider'[i].id # provider'[j].id
        /\ \A i \in 1..Len(provider) :
               DismissNotification(provider[i].id)
               => Len(provider') = Len(provider) - 1
      ]_vars

====
